---- MODULE Spec2Model ----
(***************************************************************************)
(* A model of zoossh: the fingerprint-keyed object stores (Consensus,      *)
(* RouterDescriptors), their set algebra, object filters and Iterate, the  *)
(* consensus parse pipeline (extractMetaInfo, DissectFile driving          *)
(* extractStatusEntry through a bufio.Scanner, the decoder loop of         *)
(* parseConsensusUnchecked) and the descriptor parse pipeline              *)
(* (CheckAnnotation, DissectFile driving extractDescriptor, the decoder    *)
(* loop of parseDescriptorUnchecked).                                      *)
(*                                                                         *)
(* Go strings are TLA+ strings; Go's 0-based offsets are kept, so          *)
(* s[i:j] is Slice(s, i, j).                                               *)
(***************************************************************************)
EXTENDS Integers, Sequences, FiniteSets, TLC

(***************************************************************************)
(* Bounds of the model.                                                    *)
(***************************************************************************)
\* The caller performs at most MaxOps store operations and parses.
MaxOps == 2
\* A Read of the scanner returns ReadChunk bytes, or all that is left.
ReadChunk == 24

(***************************************************************************)
(* Go string primitives.                                                   *)
(***************************************************************************)
\* s[i:j]
Slice(s, i, j) == SubSeq(s, i + 1, j)

\* s[i:]
Drop(s, i) == SubSeq(s, i + 1, Len(s))

\* s[i] as a one-character string
CharAt(s, i) == SubSeq(s, i + 1, i + 1)

\* bytes.HasPrefix / strings.HasPrefix
HasPrefix(s, p) == Len(s) >= Len(p) /\ SubSeq(s, 1, Len(p)) = p

\* The least offset of a set of offsets, or -1
FirstOf(offsets) ==
    IF offsets = {} THEN -1 ELSE CHOOSE i \in offsets : \A j \in offsets : i <= j

\* bytes.Index / strings.Index: offset of the first occurrence at or after
\* i, or -1
IndexFrom(s, p, i) ==
    FirstOf({k \in i..(Len(s) - Len(p)) : Slice(s, k, k + Len(p)) = p})

Index(s, p) == IndexFrom(s, p, 0)

\* strings.Split(s, sep) for a non-empty separator
RECURSIVE Split(_, _)
Split(s, sep) ==
    LET i == Index(s, sep)
    IN  IF i < 0 THEN <<s>>
        ELSE <<Slice(s, 0, i)>> \o Split(Drop(s, i + Len(sep)), sep)

\* strings.Join(a, sep)
RECURSIVE Join(_, _)
Join(a, sep) ==
    IF Len(a) = 0 THEN ""
    ELSE IF Len(a) = 1 THEN a[1]
    ELSE a[1] \o sep \o Join(Tail(a), sep)

\* Go: words[i:]; the caller checks i <= len(words)
SliceFrom(a, i) == SubSeq(a, i + 1, Len(a))

LowerLetters == "abcdefghijklmnopqrstuvwxyz"
UpperLetters == "ABCDEFGHIJKLMNOPQRSTUVWXYZ"

\* strings.ToUpper
RECURSIVE ToUpper(_)
ToUpper(s) ==
    IF Len(s) = 0 THEN ""
    ELSE LET c == CharAt(s, 0)
             i == Index(LowerLetters, c)
         IN  (IF i < 0 THEN c ELSE CharAt(UpperLetters, i)) \o ToUpper(Drop(s, 1))

\* unicode.IsSpace on the characters the model uses
IsSpace(c) == c \in {" ", "\n", "\t", "\r"}

RECURSIVE TrimLeft(_)
TrimLeft(s) ==
    IF Len(s) > 0 /\ IsSpace(CharAt(s, 0)) THEN TrimLeft(Drop(s, 1)) ELSE s

RECURSIVE TrimRight(_)
TrimRight(s) ==
    IF Len(s) > 0 /\ IsSpace(CharAt(s, Len(s) - 1))
    THEN TrimRight(Slice(s, 0, Len(s) - 1)) ELSE s

\* strings.TrimSpace / bytes.TrimSpace
TrimSpace(s) == TrimRight(TrimLeft(s))

\* SanitiseFingerprint: upper case, no leading or trailing white space
SanitiseFingerprint(fingerprint) == ToUpper(TrimSpace(fingerprint))

(***************************************************************************)
(* Base64ToString: unpadded or padded standard base64 to lower-case hex.   *)
(***************************************************************************)
B64Alphabet == "ABCDEFGHIJKLMNOPQRSTUVWXYZabcdefghijklmnopqrstuvwxyz0123456789+/"
HexDigits == "0123456789abcdef"

B64Val(c) == Index(B64Alphabet, c)

HexByte(b) == CharAt(HexDigits, b \div 16) \o CharAt(HexDigits, b % 16)

RECURSIVE Repeat(_, _)
Repeat(s, n) == IF n <= 0 THEN "" ELSE s \o Repeat(s, n - 1)

\* The bytes of one quantum, in hex, from the values v1..v4 of its four
\* characters (-1: not in the alphabet): [err, hex].  Padding is accepted
\* only in the last quantum, as "xx==" or "xxx=" (encoding/base64).
QuantumBytes(q, isLast, v1, v2, v3, v4) ==
    IF v1 < 0 \/ v2 < 0 THEN [err |-> TRUE, hex |-> ""]
    ELSE IF v3 >= 0 /\ v4 >= 0
    THEN [err |-> FALSE,
          hex |-> HexByte(v1 * 4 + v2 \div 16)
                    \o HexByte((v2 % 16) * 16 + v3 \div 4)
                    \o HexByte((v3 % 4) * 64 + v4)]
    ELSE IF isLast /\ v3 >= 0 /\ CharAt(q, 3) = "="
    THEN [err |-> FALSE,
          hex |-> HexByte(v1 * 4 + v2 \div 16) \o HexByte((v2 % 16) * 16 + v3 \div 4)]
    ELSE IF isLast /\ CharAt(q, 2) = "=" /\ CharAt(q, 3) = "="
    THEN [err |-> FALSE, hex |-> HexByte(v1 * 4 + v2 \div 16)]
    ELSE [err |-> TRUE, hex |-> ""]

\* One quantum of four characters
DecodeQuantum(q, isLast) ==
    QuantumBytes(q, isLast, B64Val(CharAt(q, 0)), B64Val(CharAt(q, 1)),
                 B64Val(CharAt(q, 2)), B64Val(CharAt(q, 3)))

AppendQuantum(q, rest) ==
    IF q.err \/ rest.err THEN [err |-> TRUE, hex |-> ""]
    ELSE [err |-> FALSE, hex |-> q.hex \o rest.hex]

RECURSIVE DecodeQuanta(_)
DecodeQuanta(p) ==
    IF Len(p) = 0 THEN [err |-> FALSE, hex |-> ""]
    ELSE AppendQuantum(DecodeQuantum(Slice(p, 0, 4), Len(p) = 4), DecodeQuanta(Drop(p, 4)))

\* The result of Base64ToString from the decoder's
Decoded(d) == [err |-> d.err, str |-> d.hex]

\* Base64ToString(encoded): [err, str]
Base64ToString(encoded) ==
    Decoded(DecodeQuanta(IF Len(encoded) % 4 # 0
                         THEN encoded \o Repeat("=", 4 - (Len(encoded) % 4))
                         ELSE encoded))

(***************************************************************************)
(* Numbers, ports, addresses and times of the field decoder.               *)
(***************************************************************************)
Digits == "0123456789"

IsDigits(s) == Len(s) > 0 /\ \A i \in 0..(Len(s) - 1) : Index(Digits, CharAt(s, i)) >= 0

RECURSIVE DecimalValue(_)
DecimalValue(s) ==
    IF Len(s) = 0 THEN 0
    ELSE DecimalValue(Slice(s, 0, Len(s) - 1)) * 10 + Index(Digits, CharAt(s, Len(s) - 1))

\* 2^16 - 1, the range of strconv.ParseUint(portStr, 10, 16)
MaxUint16 == 65535
\* The numerals of the model have at most MaxDigits digits; MaxNumeral stands
\* for the largest uint64.
MaxDigits == 9
MaxNumeral == 999999999

\* strconv.ParseUint(s, 10, bits) with max = 2^bits - 1: [err, val]; a syntax
\* error gives 0 and a range error gives max
ParseUint(s, max) ==
    IF ~IsDigits(s) THEN [err |-> TRUE, val |-> 0]
    ELSE IF Len(s) > MaxDigits \/ DecimalValue(s) > max THEN [err |-> TRUE, val |-> max]
    ELSE [err |-> FALSE, val |-> DecimalValue(s)]

\* StringToPort: 0 when the string is no 16-bit unsigned number
StringToPort(portStr) ==
    LET r == ParseUint(portStr, MaxUint16)
    IN  IF r.err THEN 0 ELSE r.val

\* net.ParseIP for dotted-quad IPv4 text; "" stands for a nil net.IP
ParseIP(s) ==
    LET parts == Split(s, ".")
        okPart(p) == /\ IsDigits(p)
                     /\ Len(p) <= 3
                     /\ (Len(p) > 1 => CharAt(p, 0) # "0")
                     /\ DecimalValue(p) <= 255
    IN  IF Len(parts) = 4 /\ \A i \in 1..4 : okPart(parts[i]) THEN s ELSE ""

\* time.Parse("2006-01-02 15:04:05", s) succeeds (field widths, separators
\* and field ranges; the day is not checked against the month's length)
IsTime(s) ==
    /\ Len(s) = 19
    /\ \A i \in {0, 1, 2, 3, 5, 6, 8, 9, 11, 12, 14, 15, 17, 18} :
          Index(Digits, CharAt(s, i)) >= 0
    /\ CharAt(s, 4) = "-" /\ CharAt(s, 7) = "-" /\ CharAt(s, 10) = " "
    /\ CharAt(s, 13) = ":" /\ CharAt(s, 16) = ":"
    /\ DecimalValue(Slice(s, 5, 7)) \in 1..12
    /\ DecimalValue(Slice(s, 8, 10)) \in 1..31
    /\ DecimalValue(Slice(s, 11, 13)) <= 23
    /\ DecimalValue(Slice(s, 14, 16)) <= 59
    /\ DecimalValue(Slice(s, 17, 19)) <= 59

(***************************************************************************)
(* Records.  Type tells a *RouterStatus from a *RouterDescriptor.          *)
(***************************************************************************)
FlagNames == {"Authority", "BadExit", "Exit", "Fast", "Guard", "HSDir",
              "Named", "Stable", "Running", "Unnamed", "Valid", "V2Dir"}

\* new(RouterStatus): every field at its zero value
NewRouterStatus ==
    [Type |-> "RouterStatus", Nickname |-> "", Fingerprint |-> "", Digest |-> "",
     Publication |-> "", IPv4Address |-> "", IPv4ORPort |-> 0, IPv4DirPort |-> 0,
     IPv6Address |-> "", IPv6ORPort |-> 0, Flags |-> {}, TorVersion |-> "",
     Bandwidth |-> 0, Accept |-> FALSE, PortList |-> ""]

\* NewRouterDescriptor(): a descriptor as far as the stores and the filters
\* use it, with its family (the keys of the map) and its raw exit policy.
NewRouterDescriptor ==
    [NewRouterStatus EXCEPT !.Type = "RouterDescriptor"]
      @@ [Family |-> {}, RawAccept |-> "", RawReject |-> ""]

\* parseRouterFlags: the recognised flags among the words
parseRouterFlags(flags) == {flags[i] : i \in 1..Len(flags)} \cap FlagNames

\* parseIPv6AddressAndPort: [panic, address, port].  The two regular
\* expressions find the first "[...]" and the first "]:"; a missing match
\* indexes a nil slice.  The address text is kept as written.
parseIPv6AddressAndPort(addressAndPort) ==
    LET open  == Index(addressAndPort, "[")
        close == IF open < 0 THEN -1
                 ELSE Index(Drop(addressAndPort, open + 1), "]")
        colon == Index(addressAndPort, "]:")
    IN  IF open < 0 \/ close < 0 \/ colon < 0
        THEN [panic |-> TRUE, address |-> "", port |-> 0]
        ELSE [panic |-> FALSE,
              address |-> Slice(addressAndPort, open + 1, open + 1 + close),
              port |-> StringToPort(Drop(addressAndPort, colon + 2))]

(***************************************************************************)
(* ParseRawStatus.  A decode ends "ok" with a record, "err" with an error  *)
(* or "panic" (an index out of range at run time).                         *)
(***************************************************************************)
DecodePanic == [st |-> "panic", rec |-> NewRouterStatus]
DecodeError == [st |-> "err", rec |-> NewRouterStatus]

\* The "r" line once fingerprint and digest are decoded
RLineFields(status, words, fpr, dig) ==
    IF Len(words) < 9 THEN DecodePanic
    ELSE [st |-> "ok", rec |->
            [status EXCEPT
               !.Nickname = words[2],
               !.Fingerprint = SanitiseFingerprint(fpr.str),
               !.Digest = dig.str,
               !.Publication = IF IsTime(Join(SubSeq(words, 5, 6), " "))
                               THEN Join(SubSeq(words, 5, 6), " ") ELSE "",
               !.IPv4Address = ParseIP(words[7]),
               !.IPv4ORPort = StringToPort(words[8]),
               !.IPv4DirPort = StringToPort(words[9])]]

\* The "r" line once the fingerprint is decoded
RLineDigest(status, words, fpr, dig) ==
    IF dig.err THEN DecodeError ELSE RLineFields(status, words, fpr, dig)

RLineFingerprint(status, words, fpr) ==
    IF fpr.err THEN DecodeError
    ELSE IF Len(words) < 4 THEN DecodePanic
    ELSE RLineDigest(status, words, fpr, Base64ToString(words[4]))

\* case "r"
RLine(status, words) ==
    IF Len(words) < 3 THEN DecodePanic
    ELSE RLineFingerprint(status, words, Base64ToString(words[3]))

\* case "a"
ALineAddress(status, a) ==
    IF a.panic THEN DecodePanic
    ELSE [st |-> "ok", rec |->
            [status EXCEPT !.IPv6Address = a.address, !.IPv6ORPort = a.port]]

\* A faulty variant of the "w" case: the key is parsed, not the value.
WLineValuesKey(status, values) ==
    IF Len(values) < 2 THEN DecodePanic
    ELSE [st |-> "ok", rec |->
            [status EXCEPT !.Bandwidth = ParseUint(values[1], MaxNumeral).val]]

\* case "w"
WLineValues(status, values) ==
    IF Len(values) < 2 THEN DecodePanic
    ELSE [st |-> "ok", rec |->
            [status EXCEPT !.Bandwidth = ParseUint(values[2], MaxNumeral).val]]

\* The switch of ParseRawStatus on the words of one line, applied to the
\* record so far.
StatusWords(status, words) ==
    CASE words[1] = "r" -> RLine(status, words)
      [] words[1] = "a" ->
           IF Len(words) < 2 THEN DecodePanic
           ELSE ALineAddress(status, parseIPv6AddressAndPort(words[2]))
      [] words[1] = "s" ->
           [st |-> "ok", rec |->
              [status EXCEPT !.Flags = parseRouterFlags(SliceFrom(words, 1))]]
      [] words[1] = "v" ->
           IF Len(words) < 3 THEN DecodePanic
           ELSE [st |-> "ok", rec |-> [status EXCEPT !.TorVersion = words[3]]]
      [] words[1] = "w" ->
           IF Len(words) < 2 THEN DecodePanic
           ELSE WLineValues(status, Split(words[2], "="))
      [] words[1] = "p" ->
           IF Len(words) < 2 THEN DecodePanic
           ELSE [st |-> "ok", rec |->
                  [status EXCEPT !.Accept = (words[2] = "accept"),
                                 !.PortList = Join(SliceFrom(words, 2), " ")]]
      [] OTHER -> [st |-> "ok", rec |-> status]

\* One line of ParseRawStatus
StatusLine(status, line) == StatusWords(status, Split(line, " "))

RECURSIVE StatusLines(_, _)
StatusLines(acc, lines) ==
    IF Len(lines) = 0 \/ acc.st # "ok" THEN acc
    ELSE StatusLines(StatusLine(acc.rec, lines[1]), Tail(lines))

\* ParseRawStatus(rawStatus): [st, rec]; the fingerprint it returns is
\* rec.Fingerprint and its function returns rec
ParseRawStatus(rawStatus) ==
    StatusLines([st |-> "ok", rec |-> NewRouterStatus], Split(rawStatus, "\n"))

\* The fingerprint scan of LazyParseRawStatus over the lines: [st, fpr]
LazyResult(f) == [st |-> IF f.err THEN "err" ELSE "ok", fpr |-> SanitiseFingerprint(f.str)]

LazyRLine(words) ==
    IF Len(words) < 3 THEN [st |-> "panic", fpr |-> ""]
    ELSE LazyResult(Base64ToString(words[3]))

IsRLine(line) == Split(line, " ")[1] = "r"

RECURSIVE LazyFingerprint(_)
LazyFingerprint(lines) ==
    IF Len(lines) = 0 THEN [st |-> "err", fpr |-> ""]
    ELSE IF IsRLine(lines[1]) THEN LazyRLine(Split(lines[1], " "))
    ELSE LazyFingerprint(Tail(lines))

\* LazyParseRawStatus(rawStatus): [st, fpr]; its function decodes rawStatus
\* anew each time it is called
LazyParseRawStatus(rawStatus) == LazyFingerprint(Split(rawStatus, "\n"))

(***************************************************************************)
(* ParseRawDescriptor and LazyParseRawDescriptor, for the lines that fill  *)
(* the fields of the model's record ("router", "platform", "fingerprint",  *)
(* "family", "reject", "accept") and for the lines that index their words  *)
(* ("uptime", "hibernating", "bandwidth"), with or without a leading       *)
(* "opt".                                                                  *)
(***************************************************************************)
\* strings.Trim(word, "$")
RECURSIVE TrimDollar(_)
TrimDollar(word) ==
    IF Len(word) > 0 /\ CharAt(word, 0) = "$" THEN TrimDollar(Drop(word, 1))
    ELSE IF Len(word) > 0 /\ CharAt(word, Len(word) - 1) = "$"
    THEN TrimDollar(Slice(word, 0, Len(word) - 1))
    ELSE word

\* case "family": each word but the first becomes a key of the map
FamilyOf(words) == {TrimDollar(words[i]) : i \in 2..Len(words)}

\* HasFamily(fingerprint)
HasFamily(desc, fingerprint) == SanitiseFingerprint(fingerprint) \in desc.Family

\* The least number of words the case of a keyword indexes
WordsNeeded(keyword) ==
    CASE keyword = "router" -> 6
      [] keyword = "platform" -> 5
      [] keyword = "bandwidth" -> 4
      [] keyword \in {"uptime", "hibernating", "reject", "accept"} -> 2
      [] OTHER -> 1

\* The switch of ParseRawDescriptor on words that are as many as the case
\* indexes
DescriptorFields(desc, words) ==
    CASE words[1] = "router" ->
           [desc EXCEPT !.Nickname = words[2],
                        !.IPv4Address = ParseIP(words[3]),
                        !.IPv4ORPort = StringToPort(words[4]),
                        !.IPv4DirPort = StringToPort(words[6])]
      [] words[1] = "platform" -> [desc EXCEPT !.TorVersion = words[3]]
      [] words[1] = "fingerprint" ->
           [desc EXCEPT !.Fingerprint =
                           SanitiseFingerprint(Join(SliceFrom(words, 1), ""))]
      [] words[1] = "family" -> [desc EXCEPT !.Family = @ \cup FamilyOf(words)]
      [] words[1] = "reject" -> [desc EXCEPT !.RawReject = @ \o words[2] \o " "]
      [] words[1] = "accept" -> [desc EXCEPT !.RawAccept = @ \o words[2] \o " "]
      [] OTHER -> desc

\* words = words[1:] after "opt"
OptWords(words) == IF words[1] = "opt" THEN Tail(words) ELSE words

DescriptorWords(desc, words) ==
    IF Len(words) = 0 THEN DecodePanic
    ELSE IF Len(words) < WordsNeeded(words[1]) THEN DecodePanic
    ELSE [st |-> "ok", rec |-> DescriptorFields(desc, words)]

\* One line of ParseRawDescriptor
DescriptorLine(desc, line) == DescriptorWords(desc, OptWords(Split(line, " ")))

RECURSIVE DescriptorLines(_, _)
DescriptorLines(acc, lines) ==
    IF Len(lines) = 0 \/ acc.st # "ok" THEN acc
    ELSE DescriptorLines(DescriptorLine(acc.rec, lines[1]), Tail(lines))

\* ParseRawDescriptor(rawDescriptor): [st, rec]; the fingerprint it returns
\* is rec.Fingerprint and its function returns rec
ParseRawDescriptor(rawDescriptor) ==
    DescriptorLines([st |-> "ok", rec |-> NewRouterDescriptor],
                    Split(rawDescriptor, "\n"))

LazyDescriptorWords(words, rest) ==
    IF Len(words) = 0 THEN [st |-> "panic", fpr |-> "", rest |-> <<>>]
    ELSE IF words[1] = "fingerprint"
    THEN [st |-> "ok", rest |-> <<>>,
          fpr |-> SanitiseFingerprint(Join(SliceFrom(words, 1), ""))]
    ELSE [st |-> "next", fpr |-> "", rest |-> rest]

\* The fingerprint scan of LazyParseRawDescriptor over the lines: [st, fpr]
RECURSIVE LazyDescriptorFingerprint(_)
LazyDescriptorFingerprint(r) ==
    IF r.st # "next" THEN [st |-> r.st, fpr |-> r.fpr]
    ELSE IF Len(r.rest) = 0 THEN [st |-> "err", fpr |-> ""]
    ELSE LazyDescriptorFingerprint(
            LazyDescriptorWords(OptWords(Split(r.rest[1], " ")), Tail(r.rest)))

\* LazyParseRawDescriptor(rawDescriptor): [st, fpr]; its function decodes
\* rawDescriptor anew each time it is called
LazyParseRawDescriptor(rawDescriptor) ==
    LazyDescriptorFingerprint([st |-> "next", fpr |-> "",
                               rest |-> Split(rawDescriptor, "\n")])

(***************************************************************************)
(* extractStatusEntry, the bufio.SplitFunc of the status-entry tokenizer.  *)
(* It returns [advance, token, some, err]: some = FALSE is a nil token,    *)
(* err is "nil", "final" (bufio.ErrFinalToken), "nostart" or "noend"       *)
(* (ErrNoStatusEntry).                                                     *)
(***************************************************************************)
\* A faulty variant of NextMarker: the text of the start marker counts
\* wherever a space precedes it.
NextMarkerMidLine == " r "

StartMarker == "r "
NextMarker == "\nr "
TerminalMarker == "directory-signature"

NoToken(adv, e) == [advance |-> adv, token |-> "", some |-> FALSE, err |-> e]

\* A faulty variant of EntryFrom: the entry before the terminal marker is
\* returned as any other, without bufio.ErrFinalToken.
EntryFromNotFinal(data, atEOF, start, end, sig) ==
    IF end >= 0
    THEN [advance |-> start + end + 1,
          token   |-> Slice(data, start, start + end + 1),
          some    |-> TRUE, err |-> "nil"]
    ELSE IF sig >= 0
    THEN [advance |-> start + sig,
          token   |-> Slice(data, start, start + sig),
          some    |-> TRUE, err |-> "nil"]
    ELSE IF atEOF
    THEN [advance |-> Len(data), token |-> Drop(data, start),
          some    |-> TRUE, err |-> "noend"]
    ELSE NoToken(0, "nil")

\* From the start of the entry on: end and sig are the offsets of the next
\* start marker and of the terminal marker in data[start:], or -1
EntryFrom(data, atEOF, start, end, sig) ==
    IF end >= 0
    THEN [advance |-> start + end + 1,
          token   |-> Slice(data, start, start + end + 1),
          some    |-> TRUE, err |-> "nil"]
    ELSE IF sig >= 0
    THEN [advance |-> start + sig,
          token   |-> Slice(data, start, start + sig),
          some    |-> TRUE, err |-> "final"]
    ELSE IF atEOF
    THEN [advance |-> Len(data), token |-> Drop(data, start),
          some    |-> TRUE, err |-> "noend"]
    ELSE NoToken(0, "nil")

\* A faulty variant of EntryAfter: start is left on the newline.
EntryAfterNewline(data, atEOF, found) ==
    IF found < 0
    THEN NoToken(0, IF atEOF THEN "nostart" ELSE "nil")
    ELSE EntryFrom(data, atEOF, found,
                   Index(Drop(data, found), NextMarker),
                   Index(Drop(data, found), TerminalMarker))

\* found is the offset of "\nr " in data, or -1
EntryAfter(data, atEOF, found) ==
    IF found < 0
    THEN NoToken(0, IF atEOF THEN "nostart" ELSE "nil")
    ELSE EntryFrom(data, atEOF, found + 1,
                   Index(Drop(data, found + 1), NextMarker),
                   Index(Drop(data, found + 1), TerminalMarker))

extractStatusEntry(data, atEOF) ==
    IF atEOF /\ Len(data) = 0 THEN NoToken(0, "nil")
    ELSE IF HasPrefix(data, StartMarker)
    THEN EntryFrom(data, atEOF, 0, Index(data, NextMarker), Index(data, TerminalMarker))
    ELSE EntryAfter(data, atEOF, Index(data, NextMarker))

(***************************************************************************)
(* extractDescriptor, the StringExtractor of the descriptor dissector:     *)
(* [unit, done, err], and CheckAnnotation on the opened file: [err, rest], *)
(* rest being what the file holds after the position it seeks to.          *)
(***************************************************************************)
DescriptorStart == "\nrouter "
DescriptorEnd == "\n-----END SIGNATURE-----\n"

NoDescriptor == [unit |-> "", done |-> FALSE, err |-> TRUE]

\* end is the offset of the end marker in blurb[start:], or -1
DescriptorUnit(blurb, start, end) ==
    IF end = -1 THEN NoDescriptor
    ELSE [unit |-> Slice(blurb, start, start + end + Len(DescriptorEnd)),
          done |-> Len(blurb) = start + end + Len(DescriptorEnd),
          err  |-> FALSE]

\* start is the offset of "\nrouter " in blurb, or -1
DescriptorFrom(blurb, start) ==
    IF start = -1 THEN NoDescriptor
    ELSE DescriptorUnit(blurb, start, Index(Drop(blurb, start), DescriptorEnd))

extractDescriptor(blurb) == DescriptorFrom(blurb, Index(blurb, DescriptorStart))

\* The annotations parseDescriptorFile accepts: <<Type, Major, Minor>>
descriptorAnnotations == { <<"server-descriptor", "1", "0">> }

\* scanner.Text() after one Scan of a line scanner: the first line,
\* without its end
FirstLine(text) ==
    IF Index(text, "\n") < 0 THEN text
    ELSE IF Index(text, "\n") > 0 /\ CharAt(text, Index(text, "\n") - 1) = "\r"
    THEN Slice(text, 0, Index(text, "\n") - 1)
    ELSE Slice(text, 0, Index(text, "\n"))

AnnotationVersion(words, version) ==
    Len(version) = 2 /\ <<words[2], version[1], version[2]>> \in descriptorAnnotations

AnnotationWords(words) ==
    Len(words) = 3 /\ AnnotationVersion(words, Split(words[3], "."))

CheckAnnotation(text) ==
    [err  |-> ~AnnotationWords(Split(FirstLine(text), " ")),
     rest |-> Drop(text, Len(FirstLine(text)))]

(***************************************************************************)
(* extractMetaInfo on the buffered reader: [err, rest], rest being what    *)
(* the reader still holds when the function returns.                       *)
(***************************************************************************)
\* A faulty variant of Put: a key that is there keeps its value.
PutKeep(m, k, v) == [x \in (DOMAIN m) \cup {k} |-> IF x \in DOMAIN m THEN m[x] ELSE v]

Put(m, k, v) == [x \in (DOMAIN m) \cup {k} |-> IF x = k THEN v ELSE m[x]]

\* base64.StdEncoding.DecodeString: padding is required
StdDecode(s) ==
    IF Len(s) % 4 # 0 THEN [err |-> TRUE, hex |-> ""] ELSE DecodeQuanta(s)

\* The length of the look-ahead br.Peek(11)
PeekLen == 11

\* parseRand of extractMetaInfo fails on the line
RandFails(line) ==
    LET i == Index(line, " ")
    IN  i < 0 \/ StdDecode(Drop(line, i + 1)).err

\* What follows the read loop: the validity times and the shared randomness
MetaInfoFails(meta) ==
    \/ \E k \in {"valid-after", "fresh-until", "valid-until"} :
          k \notin DOMAIN meta \/ ~IsTime(meta[k])
    \/ \E k \in {"shared-rand-previous-value", "shared-rand-current-value"} :
          k \in DOMAIN meta /\ RandFails(meta[k])

RECURSIVE MetaInfoLoop(_, _)

\* The look-ahead after a line: rest is what follows the line, m2 the map
\* with the line's key
MetaInfoPeek(rest, m2) ==
    IF Len(rest) < PeekLen THEN [err |-> TRUE, rest |-> rest]
    ELSE IF HasPrefix(rest, "dir-source") \/ HasPrefix(rest, "fingerprint")
    THEN [err |-> MetaInfoFails(m2), rest |-> rest]
    ELSE MetaInfoLoop(rest, m2)

\* One line (with its line feed) of the read loop; sp is the offset of its
\* first space, or -1
MetaInfoLine(line, rest, meta, sp) ==
    IF sp < 0 THEN [err |-> TRUE, rest |-> rest]
    ELSE MetaInfoPeek(rest, Put(meta, Slice(line, 0, sp), TrimSpace(Drop(line, sp + 1))))

\* nl is the offset of the first line feed of text, or -1
MetaInfoRead(text, meta, nl) ==
    IF nl < 0 THEN [err |-> TRUE, rest |-> ""]
    ELSE MetaInfoLine(Slice(text, 0, nl + 1), Drop(text, nl + 1), meta,
                      Index(Slice(text, 0, nl + 1), " "))

MetaInfoLoop(text, meta) == MetaInfoRead(text, meta, Index(text, "\n"))

extractMetaInfo(text) == MetaInfoLoop(text, <<>>)

(***************************************************************************)
(* Stores.  A store is the map of a Consensus (RouterStatuses) or of a     *)
(* RouterDescriptors: a function from key to handle.  A handle is the      *)
(* closure stored in the map: kind "rec" returns a decoded record it       *)
(* captured, kind "lazy" decodes the raw chunk it captured at each call.   *)
(***************************************************************************)
\* NewConsensus() / NewRouterDescriptors(): an empty map
NewStore == <<>>

RecHandle(r) == [kind |-> "rec", rec |-> r, raw |-> ""]
LazyHandle(raw) == [kind |-> "lazy", rec |-> NewRouterStatus, raw |-> raw]
LazyDescHandle(raw) == [kind |-> "lazydesc", rec |-> NewRouterDescriptor, raw |-> raw]

\* "return f()" on what ParseRawStatus returned: f is nil after an error
CallDecoded(d) == IF d.st = "ok" THEN d ELSE DecodePanic

\* Calling a handle: [st, rec].  The closure of LazyParseRawStatus calls
\* the function ParseRawStatus returned.
Resolve(h) ==
    IF h.kind = "rec" THEN [st |-> "ok", rec |-> h.rec]
    ELSE IF h.kind = "lazydesc" THEN CallDecoded(ParseRawDescriptor(h.raw))
    ELSE CallDecoded(ParseRawStatus(h.raw))

\* Length()
Length(store) == Cardinality(DOMAIN store)

\* A faulty variant of Set: the fingerprint is used as the key as it is given.
SetRaw(store, fingerprint, status) == Put(store, fingerprint, RecHandle(status))

\* A faulty variant of Set: an existing entry is kept (first write wins).
SetIfAbsent(store, fingerprint, status) ==
    IF SanitiseFingerprint(fingerprint) \in DOMAIN store THEN store
    ELSE Put(store, SanitiseFingerprint(fingerprint), RecHandle(status))

\* Set(fingerprint, status): the store after the call
Set(store, fingerprint, status) ==
    Put(store, SanitiseFingerprint(fingerprint), RecHandle(status))

\* "return getStatus(), exists" on what the call of the handle gave
GetFound(r) == [st |-> r.st, found |-> r.st = "ok", rec |-> r.rec]

\* The look-up of Get under the key k
GetKey(store, k) ==
    IF k \notin DOMAIN store
    THEN [st |-> "ok", found |-> FALSE, rec |-> NewRouterStatus]
    ELSE GetFound(Resolve(store[k]))

\* Get(fingerprint): [st, found, rec]; st = "panic" when the handle panics
Get(store, fingerprint) == GetKey(store, SanitiseFingerprint(fingerprint))

\* A faulty variant of Subtract: the handles come out of b's keys.
SubtractSwapped(a, b) == [k \in (DOMAIN b) \ (DOMAIN a) |-> b[k]]

\* a.Subtract(b): a new store
Subtract(a, b) == [k \in (DOMAIN a) \ (DOMAIN b) |-> a[k]]

\* A faulty variant of Intersect: the handles are taken from b.
IntersectFromB(a, b) == [k \in (DOMAIN a) \cap (DOMAIN b) |-> b[k]]

\* a.Intersect(b): a new store
Intersect(a, b) == [k \in (DOMAIN a) \cap (DOMAIN b) |-> a[k]]

(***************************************************************************)
(* Merge.  The loop body for one object received from Iterate(nil), and    *)
(* the outcomes of the loop over the iterated map in every order the map   *)
(* iteration can take.  An outcome is [st, store, wrote].                  *)
(***************************************************************************)

\* The body of the loop of Merge from the look-up on: obj is the object
\* received, g what c.Get(obj.GetFingerprint()) returned
MergeLooked(store, obj, type, g) ==
    IF g.st # "ok" THEN [st |-> "panic", store |-> store, wrote |-> FALSE]
    ELSE IF g.found THEN [st |-> "ok", store |-> store, wrote |-> FALSE]
    ELSE IF obj.rec.Type # type
    THEN [st |-> "panic", store |-> store, wrote |-> FALSE]
    ELSE [st |-> "ok", store |-> Set(store, obj.rec.Fingerprint, obj.rec),
          wrote |-> TRUE]

\* obj is what the call of the handle in Iterate gave
MergeReceived(store, obj, type) ==
    IF obj.st # "ok" THEN [st |-> "panic", store |-> store, wrote |-> FALSE]
    ELSE MergeLooked(store, obj, type, Get(store, obj.rec.Fingerprint))

\* The body of the loop of Merge for the object a handle of the iterated
\* map yields; type is the record type the receiver asserts.
MergeObject(store, h, type) == MergeReceived(store, Resolve(h), type)

RECURSIVE MergeLoop(_, _, _, _)
MergeLoop(acc, objs, keys, type) ==
    IF keys = {} \/ acc.st # "ok" THEN {acc}
    ELSE UNION { MergeLoop([MergeObject(acc.store, objs[k], type)
                              EXCEPT !.wrote = acc.wrote \/ @],
                           objs, keys \ {k}, type)
                 : k \in keys }

\* The loops that wrote may also have been stopped by the run time.
WithFatal(done, same) ==
    done \cup { [o EXCEPT !.st = "fatal"] : o \in {d \in done : same /\ d.wrote} }

\* The outcomes of the loop over the map objs.  When the iterated map is
\* the receiver's own and the loop writes to it, the iterating goroutine
\* and the writer race: the run time either lets the loop finish or stops
\* the program ("concurrent map iteration and map write").
MergeOutcomes(store, objs, type, same) ==
    WithFatal(MergeLoop([st |-> "ok", store |-> store, wrote |-> FALSE],
                        objs, DOMAIN objs, type), same)

(***************************************************************************)
(* Object filters.  A filter is the three sets of an ObjectFilter; nil     *)
(* tells the nil pointer from a filter that exists.                        *)
(***************************************************************************)
\* net.IP.String(): the nil address prints as "<nil>"
IPString(addr) == IF addr = "" THEN "<nil>" ELSE addr

\* filter == nil, and NewObjectFilter()
NilFilter == [nil |-> TRUE, Fingerprints |-> {}, IPAddrs |-> {}, Nicknames |-> {}]
NewObjectFilter == [nil |-> FALSE, Fingerprints |-> {}, IPAddrs |-> {}, Nicknames |-> {}]

HasFingerprint(filter, fpr) == fpr \in filter.Fingerprints
HasIPAddr(filter, addr) == IPString(addr) \in filter.IPAddrs
HasNickname(filter, nickname) == nickname \in filter.Nicknames

IsEmpty(filter) ==
    /\ Cardinality(filter.Fingerprints) = 0
    /\ Cardinality(filter.IPAddrs) = 0
    /\ Cardinality(filter.Nicknames) = 0

\* A faulty variant of MatchesRouterStatus: it lets every record pass a
\* filter that has nothing in it.
MatchesOrEmpty(filter, status) ==
    \/ IsEmpty(filter)
    \/ HasIPAddr(filter, status.IPv4Address)
    \/ HasIPAddr(filter, status.IPv6Address)
    \/ HasFingerprint(filter, status.Fingerprint)
    \/ HasNickname(filter, status.Nickname)

MatchesRouterStatus(filter, status) ==
    IF HasIPAddr(filter, status.IPv4Address) \/ HasIPAddr(filter, status.IPv6Address)
    THEN TRUE
    ELSE IF HasFingerprint(filter, status.Fingerprint) THEN TRUE
    ELSE IF HasNickname(filter, status.Nickname) THEN TRUE
    ELSE FALSE

\* The filter test of RouterDescriptors.Iterate(filter): a descriptor
\* passes by its fingerprint, its address or its nickname.
MatchesRouterDescriptor(filter, desc) ==
    \/ HasFingerprint(filter, desc.Fingerprint)
    \/ HasIPAddr(filter, desc.IPv4Address)
    \/ HasNickname(filter, desc.Nickname)

\* The filter test of the loop of Iterate on an object of the store
Matches(filter, obj) ==
    IF obj.Type = "RouterDescriptor" THEN MatchesRouterDescriptor(filter, obj)
    ELSE MatchesRouterStatus(filter, obj)

\* filter == nil || filter.IsEmpty() || filter.Matches...(obj)
Admits(filter, obj) == filter.nil \/ IsEmpty(filter) \/ Matches(filter, obj)

(***************************************************************************)
(* The inputs of the model.                                                *)
(***************************************************************************)
ConsNames == {"a", "b"}
DescNames == {"da", "db"}

\* The store the caller keeps a parsed Consensus as.
ParseDst == "a"

\* Fingerprints handed to Set and Get: lower case, upper case with white
\* space around it, and a second identity.
SetFprs == {"aa", " AA\n", "bb"}
GetFprs == SetFprs \cup {""}

\* Records handed to Consensus.Set: the zero record &RouterStatus{} of
\* TestConsensusOperations, whose Fingerprint differs from every key it is
\* set under, and a decoded record.
StatusRecs == { NewRouterStatus,
                [NewRouterStatus EXCEPT !.Fingerprint = "AA", !.Nickname = "n1"] }

\* Descriptors are set under their own fingerprint.
DescFprs == {"aa", "dd"}
DescRec(f) == [NewRouterDescriptor EXCEPT !.Fingerprint = SanitiseFingerprint(f),
                                          !.Nickname = "d"]

\* The pieces documents are made of.
HeaderConsensus ==
    "valid-after 2014-12-08 16:00:00\nfresh-until 2014-12-08 17:00:00\n"
      \o "valid-until 2014-12-08 19:00:00\ndir-source x\n"
HeaderBridge == "published 2014-12-08 16:00:00\nfingerprint AA\n"
Headers == {HeaderConsensus, HeaderBridge, ""}

\* Status entries with the fingerprints AA, BB and BB; the digest of the
\* third is no base64, so that only the lazy decoder accepts it.
Rec1 == "r n1 qg AA d t 1.2.3.4 9001 0\n"
Rec2 == "r n2 uw AQ d t 1.2.3.5 443 80\ns Fast\n"
Rec3 == "r n3 uw ! d t 1.2.3.6 1 2\n"
RecSeqs == {<<>>, <<Rec1>>, <<Rec1, Rec2>>, <<Rec1, Rec3>>}

Trailer == "directory-signature x\n"
Trailers == {Trailer, ""}

RECURSIVE Concat(_)
Concat(a) == IF Len(a) = 0 THEN "" ELSE a[1] \o Concat(Tail(a))

Docs == { [text |-> h \o Concat(rs) \o t, header |-> h, recs |-> rs, trailer |-> t]
          : h \in Headers, rs \in RecSeqs, t \in Trailers }

\* The documents of the parses whose queue is followed to its end: those
\* of Docs, and consensuses in which the entry that no full decoder accepts
\* comes before another entry.
QueueDocs ==
    Docs \cup { [text |-> HeaderConsensus \o Concat(rs) \o Trailer,
                 header |-> HeaderConsensus, recs |-> rs, trailer |-> Trailer]
               : rs \in {<<Rec3, Rec1>>, <<Rec3, Rec1, Rec2>>} }

\* The parses of the specification of the stores, which fill a store for
\* the operations that follow: a consensus, parsed lazily and strictly or
\* eagerly and not strictly, and a bridge network status whose second
\* record only the lazy decoder accepts.
ConsensusDoc == [text |-> HeaderConsensus \o Rec1 \o Rec2 \o Trailer,
                 header |-> HeaderConsensus, recs |-> <<Rec1, Rec2>>, trailer |-> Trailer]
BridgeDoc == [text |-> HeaderBridge \o Rec1 \o Rec3 \o Trailer,
              header |-> HeaderBridge, recs |-> <<Rec1, Rec3>>, trailer |-> Trailer]
StoreParses == { [doc |-> ConsensusDoc, lazy |-> TRUE, strict |-> TRUE],
                 [doc |-> ConsensusDoc, lazy |-> FALSE, strict |-> FALSE],
                 [doc |-> BridgeDoc, lazy |-> TRUE, strict |-> FALSE] }

\* The texts handed to the tokenizer alone: a padding that holds the text
\* of the start marker in the middle of a line, status entries as
\* TestExtractStatusEntryPadded has them, and an entry that holds the text
\* of the start marker in the middle of its lines.
Padding == "padding r padding\n"
EntryFoo == "r foo\nnumber 1\n"
EntryBar == "r bar\nnumber 2\n"
EntryMid == "r mid r x\ns r y\n"
ScanRecSeqs == {<<>>, <<EntryFoo>>, <<EntryFoo, EntryBar>>, <<EntryMid>>,
                <<EntryMid, EntryBar>>, <<EntryFoo, EntryMid>>}
ScanDocs == { [text |-> pre \o Concat(rs) \o t, header |-> pre, recs |-> rs, trailer |-> t]
              : pre \in {"", Padding}, rs \in ScanRecSeqs, t \in Trailers }

\* The texts delivered to the tokenizer byte by byte or in any larger
\* increments: one or two entries with and without a padding and the
\* terminal marker, and an entry that follows the terminal marker.
IncrementDocs ==
    { [text |-> pre \o Concat(rs) \o t, header |-> pre, recs |-> rs, trailer |-> t]
      : pre \in {"", "pad\n"}, rs \in {<<EntryFoo>>, <<EntryFoo, EntryBar>>},
        t \in {Trailer, "", Trailer \o EntryBar} }

\* A fourth status entry, with the fingerprint BB of the second, and the
\* consensuses of the parses of whole documents.
Rec4 == "r n4 uw AQ d t 1.2.3.7 2 3\n"
ConsensusRecSeqs == {<<Rec1, Rec2>>, <<Rec2, Rec4>>, <<Rec2, Rec1, Rec4>>}
ConsensusDocs ==
    { [text |-> HeaderConsensus \o Concat(rs) \o Trailer, header |-> HeaderConsensus,
       recs |-> rs, trailer |-> Trailer] : rs \in ConsensusRecSeqs }

\* Descriptor files as CollecTor has them: each descriptor follows the line
\* of its annotation, whose newline is the first byte of the descriptor
\* that extractDescriptor cuts out.  The third descriptor has the
\* fingerprint of the first; in the file of five descriptors the
\* annotations add up to more than the length of a descriptor.
AnnotationDescriptor == "@type server-descriptor 1.0"
AnnotationExtraInfo == "@type extra-info 1.0"
Descriptor1 == "\nrouter n1 1.2.3.4 1 0 0\nfingerprint AA 11\n-----END SIGNATURE-----\n"
Descriptor2 == "\nrouter n2 1.2.3.5 1 0 0\nfingerprint bb 22\n-----END SIGNATURE-----\n"
Descriptor3 == "\nrouter n3 1.2.3.6 1 0 0\nopt fingerprint AA 11\n-----END SIGNATURE-----\n"
DescriptorSeqs == {<<Descriptor1>>, <<Descriptor1, Descriptor2>>,
                   <<Descriptor1, Descriptor2, Descriptor3>>,
                   <<Descriptor3, Descriptor2, Descriptor1>>,
                   <<Descriptor1, Descriptor2, Descriptor3, Descriptor2, Descriptor1>>}

RECURSIVE Annotated(_, _)
Annotated(annotation, ds) ==
    IF Len(ds) = 0 THEN ""
    ELSE annotation \o ds[1] \o Annotated(annotation, Tail(ds))

DescriptorDocs ==
    { [text |-> Annotated(an, ds), header |-> an, recs |-> ds, trailer |-> ""]
      : an \in {AnnotationDescriptor, AnnotationExtraInfo}, ds \in DescriptorSeqs }

\* The chunks handed to the status decoders: the status entry of
\* TestExtractStatusEntry and what comes of it with another "r" line (a
\* short one, one whose digest is no base64, one whose identity is no
\* base64, none), without its "v" line, and with another "w" line (a value
\* that is no number, an empty value, no "=", a value of more digits than
\* the largest number has, none).
RLineSeele == "r seele AAoQ1DAR6kkoo19hBAX5K0QztNw bdrzhG0Kk/8DUsnSdmzj7DjFQjY "
                \o "2014-12-08 12:27:05 73.15.150.172 9001 0\n"
RLines == {RLineSeele, Rec1, Rec3, "r n5 ! AA d t 1.2.3.8 1 2\n", ""}
SLineSeele == "s Fast Running Stable Valid\n"
VLineSeele == "v Tor 0.2.5.10\n"
VLines == {VLineSeele, ""}
WLineSeele == "w Bandwidth=18\n"
WLinesNoNumber == {"w Bandwidth=abc\n", "w Bandwidth=\n", "w Bandwidth\n"}
WLineRange == "w Bandwidth=" \o Repeat("9", MaxDigits + 1) \o "\n"
WLines == {WLineSeele, WLineRange, ""} \cup WLinesNoNumber
PLineSeele == "p reject 1-65535\n"
StatusEntrySeele == RLineSeele \o SLineSeele \o VLineSeele \o WLineSeele \o PLineSeele
StatusChunk(r, v, w) == r \o SLineSeele \o v \o w \o PLineSeele
StatusChunks == { StatusChunk(r, v, w) : r \in RLines, v \in VLines, w \in WLines }

\* The chunks handed to the descriptor decoders, as extractDescriptor cuts
\* them out: a "router" line, then identity lines (one, one after "opt" in
\* lower case, two of different identities, none), a line "uptime" that
\* lacks its value or none, a "family" line (upper case with "$", lower
\* case without, none), and exit policy lines (accept before reject,
\* reject before accept, two rejects around an accept, none).
RouterLine == "router n1 1.2.3.4 1 0 0\n"
FingerprintLines == {"fingerprint AA 11\n", "opt fingerprint bb 22\n",
                     "fingerprint AA 11\nfingerprint BB 22\n", ""}
UptimeLines == {"", "uptime\n"}
FamilyLines == {"family $AA11 $BB22\n", "family aa11\n", ""}
AcceptLine == "accept *:80\n"
RejectLine == "reject *:*\n"
RejectLine25 == "reject *:25\n"
PolicyLines == {AcceptLine \o RejectLine, RejectLine \o AcceptLine,
                RejectLine25 \o AcceptLine \o RejectLine, ""}
DescriptorChunk(f, u, fam, pol) ==
    "\n" \o RouterLine \o f \o u \o fam \o pol \o "-----END SIGNATURE-----\n"
DescriptorChunks ==
    { DescriptorChunk(f, u, fam, pol) : f \in FingerprintLines, u \in UptimeLines,
                                        fam \in FamilyLines, pol \in PolicyLines }

\* The filters handed to Iterate: nil, NewObjectFilter(), and what the Add
\* methods make of it with the fingerprint of the second status entry or
\* of a descriptor, the address of the first entry, and the nickname of
\* the first entry.
FilterFprs == {"BB", "DD"}
FilterAddrs == {"1.2.3.4"}
FilterNicknames == {"n1"}
\* The RouterDescriptors that is iterated
IterDescs == "da"

IterFilters ==
    {NilFilter} \cup
    { [nil |-> FALSE, Fingerprints |-> F, IPAddrs |-> A, Nicknames |-> N]
      : F \in SUBSET FilterFprs, A \in SUBSET FilterAddrs, N \in SUBSET FilterNicknames }

(***************************************************************************)
(* State.                                                                  *)
(***************************************************************************)
VARIABLES
    cons,      \* the Consensus stores of the caller, by name
    descs,     \* the RouterDescriptors stores of the caller, by name
    ops,       \* the number of store operations the caller has made
    last,      \* the last store operation: its arguments and its results
    crash,     \* "none", or how the program died: "panic", "fatal"
    setlog,    \* per Consensus: the Set calls made on it, in order
    onlySet,   \* per Consensus: nothing but Set has changed it
    ppc,       \* the caller in parseConsensusUnchecked: "idle", "parsing"
    pargs,     \* the arguments of the parse: doc, lazy, strict, dst
    input,     \* what the reader has not yet handed to the scanner
    sbuf,      \* the scanner's buffered, unconsumed data
    serr,      \* the scanner's error: "nil", "EOF", "nostart", "noend"
    sdone,     \* the scanner saw bufio.ErrFinalToken
    prod,      \* DissectFile: "none", "scan", "send", "senderr", "closed"
    unit,      \* the QueueUnit DissectFile is sending
    building,  \* the Consensus the parse fills and returns
    pres,      \* the result of the parse: [st, err]
    iter,      \* the Iterate the caller is ranging over, and what it received
    chunks,    \* the units received so far from the scanner of DissectFile
    decoded    \* the last call of a decoder by the caller, and what it returned

vars == <<cons, descs, ops, last, crash, setlog, onlySet, ppc, pargs, input,
          sbuf, serr, sdone, prod, unit, building, pres, iter,
          chunks, decoded>>

storeVars == <<cons, descs, ops, last, setlog, onlySet, iter>>
parseVars == <<ppc, pargs, building, pres>>
scanVars == <<input, sbuf, serr, sdone, prod, unit, chunks>>

NoOp == [op |-> "none", self |-> "", other |-> "", fpr |-> "", pre |-> NewStore,
         arg |-> NewStore, post |-> NewStore, st |-> "ok", found |-> FALSE,
         rec |-> NewRouterStatus]
NoArgs == [doc |-> [text |-> "", header |-> "", recs |-> <<>>, trailer |-> ""],
           lazy |-> FALSE, strict |-> FALSE, dst |-> ""]
NoUnit == [Blurb |-> "", Err |-> "nil"]
NoCall == [fn |-> "none", raw |-> "", st |-> "ok", fpr |-> "", called |-> FALSE,
           rec |-> NewRouterStatus, asked |-> "", has |-> FALSE]
NoIter == [st |-> "none", self |-> "", filter |-> NilFilter, store |-> NewStore,
           todo |-> {}, got |-> <<>>]

\* The caller has made its stores and has called nothing yet.
Constructed ==
    /\ cons = [c \in ConsNames |-> NewStore]
    /\ descs = [d \in DescNames |-> NewStore]
    /\ ops = 0
    /\ last = NoOp
    /\ crash = "none"
    /\ setlog = [c \in ConsNames |-> <<>>]
    /\ onlySet = [c \in ConsNames |-> TRUE]
    /\ ppc = "idle"
    /\ pargs = NoArgs
    /\ input = ""
    /\ sbuf = ""
    /\ serr = "nil"
    /\ sdone = FALSE
    /\ prod = "none"
    /\ unit = NoUnit
    /\ building = NewStore
    /\ pres = [st |-> "none", err |-> "nil"]
    /\ iter = NoIter
    /\ chunks = <<>>

Init == Constructed /\ decoded = NoCall

\* The caller holds a chunk for the decoders.
InitDecode ==
    /\ Constructed
    /\ \E raw \in StatusChunks \cup DescriptorChunks :
          decoded = [NoCall EXCEPT !.raw = raw]

\* The store an ObjectSet argument names
StoreOf(n) == IF n \in ConsNames THEN cons[n] ELSE descs[n]

\* The caller is between calls and may make another store operation: it
\* is in no parse and in no loop over the channel of an Iterate.
Ready == crash = "none" /\ ppc = "idle" /\ ops < MaxOps /\ iter.st # "running"

(***************************************************************************)
(* Store operations of the caller.                                         *)
(***************************************************************************)
ConsensusSet(c, f, r) ==
    /\ Ready
    /\ cons' = [cons EXCEPT ![c] = Set(cons[c], f, r)]
    /\ last' = [NoOp EXCEPT !.op = "Set", !.self = c, !.fpr = f, !.rec = r,
                            !.pre = cons[c], !.post = Set(cons[c], f, r)]
    /\ setlog' = [setlog EXCEPT ![c] =
                    IF onlySet[c] THEN Append(@, [fpr |-> f, rec |-> r]) ELSE @]
    /\ ops' = ops + 1
    /\ UNCHANGED <<descs, crash, onlySet, parseVars, scanVars, iter, decoded>>

DescriptorsSet(d, f) ==
    /\ Ready
    /\ descs' = [descs EXCEPT ![d] = Set(descs[d], f, DescRec(f))]
    /\ last' = [NoOp EXCEPT !.op = "Set", !.self = d, !.fpr = f, !.rec = DescRec(f),
                            !.pre = descs[d], !.post = Set(descs[d], f, DescRec(f))]
    /\ ops' = ops + 1
    /\ UNCHANGED <<cons, crash, setlog, onlySet, parseVars, scanVars, iter, decoded>>

\* g is what Get returned
GetReturns(c, f, g) ==
    /\ last' = [NoOp EXCEPT !.op = "Get", !.self = c, !.fpr = f,
                            !.pre = cons[c], !.post = cons[c],
                            !.st = g.st, !.found = g.found, !.rec = g.rec]
    /\ crash' = IF g.st = "ok" THEN "none" ELSE g.st

ConsensusGet(c, f) ==
    /\ Ready
    /\ GetReturns(c, f, Get(cons[c], f))
    /\ ops' = ops + 1
    /\ UNCHANGED <<cons, descs, setlog, onlySet, parseVars, scanVars, iter, decoded>>

\* Consensus.Merge(objs): the loop runs over objs.Iterate(nil)
ConsensusMerge(c, o) ==
    /\ Ready
    /\ \E m \in MergeOutcomes(cons[c], StoreOf(o), "RouterStatus", o = c) :
          /\ cons' = [cons EXCEPT ![c] = m.store]
          /\ last' = [NoOp EXCEPT !.op = "Merge", !.self = c, !.other = o,
                                  !.pre = cons[c], !.arg = StoreOf(o),
                                  !.post = m.store, !.st = m.st]
          /\ crash' = IF m.st = "ok" THEN "none" ELSE m.st
    /\ onlySet' = [onlySet EXCEPT ![c] = FALSE]
    /\ setlog' = [setlog EXCEPT ![c] = <<>>]
    /\ ops' = ops + 1
    /\ UNCHANGED <<descs, parseVars, scanVars, iter, decoded>>

\* RouterDescriptors.Merge(objs): the loop runs over descs.Iterate(), the
\* receiver's own map; objs is not read
DescriptorsMerge(d, o) ==
    /\ Ready
    /\ \E m \in MergeOutcomes(descs[d], descs[d], "RouterDescriptor", TRUE) :
          /\ descs' = [descs EXCEPT ![d] = m.store]
          /\ last' = [NoOp EXCEPT !.op = "Merge", !.self = d, !.other = o,
                                  !.pre = descs[d], !.arg = StoreOf(o),
                                  !.post = m.store, !.st = m.st]
          /\ crash' = IF m.st = "ok" THEN "none" ELSE m.st
    /\ ops' = ops + 1
    /\ UNCHANGED <<cons, setlog, onlySet, parseVars, scanVars, iter, decoded>>

\* dst = a.Intersect(b)
ConsensusIntersect(a, b, dst) ==
    /\ Ready
    /\ cons' = [cons EXCEPT ![dst] = Intersect(cons[a], cons[b])]
    /\ last' = [NoOp EXCEPT !.op = "Intersect", !.self = a, !.other = b,
                            !.pre = cons[a], !.arg = cons[b],
                            !.post = Intersect(cons[a], cons[b])]
    /\ onlySet' = [onlySet EXCEPT ![dst] = FALSE]
    /\ setlog' = [setlog EXCEPT ![dst] = <<>>]
    /\ ops' = ops + 1
    /\ UNCHANGED <<descs, crash, parseVars, scanVars, iter, decoded>>

\* dst = a.Subtract(b)
ConsensusSubtract(a, b, dst) ==
    /\ Ready
    /\ cons' = [cons EXCEPT ![dst] = Subtract(cons[a], cons[b])]
    /\ last' = [NoOp EXCEPT !.op = "Subtract", !.self = a, !.other = b,
                            !.pre = cons[a], !.arg = cons[b],
                            !.post = Subtract(cons[a], cons[b])]
    /\ onlySet' = [onlySet EXCEPT ![dst] = FALSE]
    /\ setlog' = [setlog EXCEPT ![dst] = <<>>]
    /\ ops' = ops + 1
    /\ UNCHANGED <<descs, crash, parseVars, scanVars, iter, decoded>>

(***************************************************************************)
(* parseConsensusUnchecked(r, lazy, strict).  The caller parses before it  *)
(* works on its stores: the parse builds a Consensus of its own and reads  *)
(* none of the caller's.                                                   *)
(***************************************************************************)
\* m is what extractMetaInfo returned
AfterMetaInfo(strict, m) ==
    IF strict /\ m.err
    THEN /\ pres' = [st |-> "err", err |-> "metainfo"]
         /\ UNCHANGED <<ppc, scanVars>>
    ELSE /\ ppc' = "parsing"
         /\ input' = m.rest
         /\ prod' = "scan"
         /\ UNCHANGED <<pres, sbuf, serr, sdone, unit, chunks>>

\* The call up to the start of the DissectFile goroutine.
ParseStart(doc, lazy, strict, dst) ==
    /\ crash = "none" /\ ppc = "idle" /\ ops = 0 /\ pres.st = "none"
    /\ pargs' = [doc |-> doc, lazy |-> lazy, strict |-> strict, dst |-> dst]
    /\ building' = NewStore
    /\ AfterMetaInfo(strict, extractMetaInfo(doc.text))
    /\ UNCHANGED <<storeVars, crash, decoded>>

\* What DissectFile does when scanner.Scan() has returned false: it sends
\* scanner.Err() if there is one, and returns, which closes the queue and
\* ends the life of the scanner.
AfterScan(err) ==
    IF err \in {"nil", "EOF"}
    THEN /\ prod' = "closed" /\ unit' = NoUnit
         /\ input' = "" /\ sbuf' = "" /\ serr' = "nil" /\ sdone' = FALSE
    ELSE /\ prod' = "senderr" /\ unit' = [Blurb |-> "", Err |-> err]
         /\ input' = "" /\ sbuf' = "" /\ serr' = err /\ sdone' = FALSE

\* The numbers of bytes a Read returns: all that is left, or a block of
\* ReadChunk bytes of it.
BlockSizes == {Len(input), IF Len(input) < ReadChunk THEN Len(input) ELSE ReadChunk}

\* The numbers of bytes a Read may return by the contract of io.Reader:
\* any number from one byte to all that is left.
ByteSizes == 1..Len(input)

\* Without a token the scanner reads: the end of the input, or as many
\* bytes of what is left of it as the reader returns.
ScanRead(sizes) ==
    IF serr # "nil" THEN AfterScan(serr)
    ELSE IF input = ""
    THEN /\ serr' = "EOF"
         /\ UNCHANGED <<input, sbuf, sdone, prod, unit>>
    ELSE \E n \in sizes :
            /\ sbuf' = sbuf \o Slice(input, 0, n)
            /\ input' = Drop(input, n)
            /\ UNCHANGED <<serr, sdone, prod, unit>>

\* r is what the split function returned
ScanSplit(r, sizes) ==
    IF r.err = "final"
    THEN /\ sdone' = TRUE
         /\ prod' = "send"
         /\ unit' = [Blurb |-> r.token, Err |-> "nil"]
         /\ UNCHANGED <<input, sbuf, serr>>
    ELSE IF r.err # "nil" THEN AfterScan(r.err)
    ELSE IF r.some
    THEN /\ sbuf' = Drop(sbuf, r.advance)
         /\ prod' = "send"
         /\ unit' = [Blurb |-> r.token, Err |-> "nil"]
         /\ UNCHANGED <<input, serr, sdone>>
    ELSE ScanRead(sizes)

\* One turn of the loop of bufio.Scanner.Scan in DissectFile: the split
\* function on the buffered data when there is any (or at the end of the
\* input), then, without a token, a Read.  Tokens of the model are shorter
\* than bufio.MaxScanTokenSize.
Scan(sizes) ==
    IF sdone THEN AfterScan(serr)
    ELSE IF Len(sbuf) > 0 \/ serr # "nil"
    THEN ScanSplit(extractStatusEntry(sbuf, serr # "nil"), sizes)
    ELSE ScanRead(sizes)

\* The reader returns blocks.
ScanStep ==
    /\ crash = "none" /\ prod = "scan"
    /\ Scan(BlockSizes)
    /\ UNCHANGED <<storeVars, crash, parseVars, chunks, decoded>>

\* The reader returns any number of bytes.
ScanStepBytes ==
    /\ crash = "none" /\ prod = "scan"
    /\ Scan(ByteSizes)
    /\ UNCHANGED <<storeVars, crash, parseVars, chunks, decoded>>

LazyParsed(l, blurb) == [st |-> l.st, fpr |-> l.fpr, handle |-> LazyHandle(blurb)]
EagerParsed(e) == [st |-> e.st, fpr |-> e.rec.Fingerprint, handle |-> RecHandle(e.rec)]

\* The statusParser of the parse applied to a blurb: [st, fpr, handle]
StatusParser(lazy, blurb) ==
    IF lazy THEN LazyParsed(LazyParseRawStatus(blurb), blurb)
    ELSE EagerParsed(ParseRawStatus(blurb))

\* A faulty variant of UnitRejected: only strict mode rejects a unit.
UnitRejectedStrictOnly(u, strict) == u.Err # "nil" /\ strict

\* A faulty variant of UnitRejected: the missing end of the last entry is
\* let pass in strict mode too.
UnitRejectedLenient(u, strict) == u.Err # "nil" /\ u.Err # "noend"

\* The consumer's test of a unit: it carries an error the mode rejects.
UnitRejected(u, strict) == u.Err # "nil" /\ (strict \/ u.Err # "noend")

\* The loop body of the consumer from the result p of statusParser on
Insert(p) ==
    CASE p.st = "panic" ->
           /\ crash' = "panic"
           /\ UNCHANGED <<building, pres, ppc>>
      [] p.st = "err" ->
           /\ pres' = [st |-> "err", err |-> "decode"]
           /\ ppc' = "idle"
           /\ UNCHANGED <<building, crash>>
      [] OTHER ->
           /\ building' = Put(building, SanitiseFingerprint(p.fpr), p.handle)
           /\ UNCHANGED <<pres, ppc, crash>>

\* A unit passes from the scanner loop to the loop that receives it; the
\* sender goes on to scan, or returns after it has sent the scanner's error.
Receive ==
    /\ prod \in {"send", "senderr"}
    /\ prod' = IF prod = "senderr" THEN "closed" ELSE "scan"
    /\ serr' = IF prod = "senderr" THEN "nil" ELSE serr
    /\ unit' = NoUnit
    /\ chunks' = Append(chunks, unit)

\* The queue is unbuffered: DissectFile's send and the receive of the
\* consumer loop happen together; the consumer then runs its loop body.
Deliver ==
    /\ crash = "none" /\ ppc = "parsing"
    /\ Receive
    /\ IF UnitRejected(unit, pargs.strict)
       THEN /\ pres' = [st |-> "err", err |-> unit.Err]
            /\ ppc' = "idle"
            /\ UNCHANGED <<building, crash>>
       ELSE Insert(StatusParser(pargs.lazy, unit.Blurb))
    /\ UNCHANGED <<storeVars, pargs, input, sbuf, sdone, decoded>>

\* The queue is closed: the consumer loop ends and the parse returns the
\* Consensus, which the caller keeps as dst.
ParseReturn ==
    /\ crash = "none" /\ ppc = "parsing" /\ prod = "closed"
    /\ pres' = [st |-> "ok", err |-> "nil"]
    /\ ppc' = "idle"
    /\ cons' = [cons EXCEPT ![pargs.dst] = building]
    /\ onlySet' = [onlySet EXCEPT ![pargs.dst] = FALSE]
    /\ UNCHANGED <<descs, ops, last, crash, setlog, pargs, building, scanVars, iter, decoded>>

(***************************************************************************)
(* Iterate(filter).  The method returns a channel and starts a goroutine   *)
(* that ranges over the map, calls each handle, sends the objects the      *)
(* filter admits and closes the channel; the caller ranges over the        *)
(* channel.  The channel is unbuffered: a send is the caller's receive.    *)
(***************************************************************************)
Iterating(n, filter) ==
    /\ Ready
    /\ iter.st = "none"
    /\ iter' = [st |-> "running", self |-> n, filter |-> filter,
                store |-> StoreOf(n), todo |-> DOMAIN StoreOf(n), got |-> <<>>]
    /\ ops' = ops + 1
    /\ UNCHANGED <<cons, descs, last, crash, setlog, onlySet, parseVars, scanVars, decoded>>

ConsensusIterate(c, filter) == Iterating(c, filter)

DescriptorsIterate(d, filter) == Iterating(d, filter)

\* The loop body for the map entry k, r being what its handle returned.
\* What the caller received is kept with the key of the entry it came from.
IterateObject(k, r) ==
    IF r.st # "ok"
    THEN /\ iter' = [iter EXCEPT !.st = "panic"]
         /\ crash' = "panic"
    ELSE /\ iter' = [iter EXCEPT !.todo = @ \ {k},
                                 !.got = IF Admits(iter.filter, r.rec)
                                         THEN Append(@, [key |-> k, obj |-> r.rec]) ELSE @]
         /\ UNCHANGED crash

\* One turn of the loop: Go ranges over a map in any order.
IterateNext ==
    /\ crash = "none" /\ iter.st = "running"
    /\ \E k \in iter.todo : IterateObject(k, Resolve(iter.store[k]))
    /\ UNCHANGED <<cons, descs, ops, last, setlog, onlySet, parseVars, scanVars, decoded>>

\* close(ch), which ends the caller's loop
IterateClose ==
    /\ crash = "none" /\ iter.st = "running" /\ iter.todo = {}
    /\ iter' = [iter EXCEPT !.st = "closed"]
    /\ UNCHANGED <<cons, descs, ops, last, crash, setlog, onlySet, parseVars, scanVars, decoded>>

(***************************************************************************)
(* The tokenizer alone, as the tests drive it: a bufio.Scanner over the    *)
(* text with extractStatusEntry as its split function, and a loop that     *)
(* takes every token.                                                      *)
(***************************************************************************)
ScanStart(doc) ==
    /\ crash = "none" /\ ppc = "idle" /\ ops = 0 /\ prod = "none"
    /\ pargs' = [doc |-> doc, lazy |-> FALSE, strict |-> FALSE, dst |-> ""]
    /\ ppc' = "scanning"
    /\ input' = doc.text
    /\ prod' = "scan"
    /\ UNCHANGED <<storeVars, crash, building, pres, sbuf, serr, sdone, unit, chunks, decoded>>

\* scanner.Scan() has returned true and the loop takes scanner.Text(), or
\* it has returned false and the loop takes scanner.Err().
Collect ==
    /\ crash = "none" /\ ppc = "scanning"
    /\ Receive
    /\ UNCHANGED <<storeVars, crash, parseVars, input, sbuf, sdone, decoded>>

(***************************************************************************)
(* parseDescriptorFile(fileName, lazy): CheckAnnotation, then DissectFile  *)
(* with extractDescriptor on what the file still holds, and the loop that  *)
(* decodes the units of the queue into a RouterDescriptors.                *)
(***************************************************************************)
AfterAnnotation(a) ==
    IF a.err
    THEN /\ pres' = [st |-> "err", err |-> "annotation"]
         /\ UNCHANGED <<ppc, scanVars>>
    ELSE /\ ppc' = "descriptors"
         /\ input' = a.rest
         /\ prod' = "dissect"
         /\ UNCHANGED <<pres, sbuf, serr, sdone, unit, chunks>>

DescParseStart(doc, lazy, dst) ==
    /\ crash = "none" /\ ppc = "idle" /\ ops = 0 /\ pres.st = "none"
    /\ pargs' = [doc |-> doc, lazy |-> lazy, strict |-> FALSE, dst |-> dst]
    /\ building' = NewStore
    /\ AfterAnnotation(CheckAnnotation(doc.text))
    /\ UNCHANGED <<storeVars, crash, decoded>>

\* e is what the extractor returned for rawContent
Dissected(e) ==
    IF e.err
    THEN /\ prod' = "closed"
         /\ UNCHANGED <<unit, sdone>>
    ELSE /\ prod' = "send"
         /\ unit' = [Blurb |-> e.unit, Err |-> "nil"]
         /\ sdone' = e.done

\* One turn of the loop of DissectFile up to its send: input is
\* rawContent, sdone the done of the extractor.
Dissect ==
    /\ crash = "none" /\ prod = "dissect"
    /\ Dissected(extractDescriptor(input))
    /\ UNCHANGED <<storeVars, crash, parseVars, input, sbuf, serr, chunks, decoded>>

LazyDescParsed(l, blurb) == [st |-> l.st, fpr |-> l.fpr, handle |-> LazyDescHandle(blurb)]

\* The descriptorParser of the parse applied to a blurb: [st, fpr, handle]
DescriptorParser(lazy, blurb) ==
    IF lazy THEN LazyDescParsed(LazyParseRawDescriptor(blurb), blurb)
    ELSE EagerParsed(ParseRawDescriptor(blurb))

\* The send of DissectFile and the receive of the consumer loop, which
\* runs its loop body; DissectFile cuts the unit's length off rawContent
\* and leaves its loop when the extractor said done.
DescDeliver ==
    /\ crash = "none" /\ ppc = "descriptors" /\ prod = "send"
    /\ chunks' = Append(chunks, unit)
    /\ input' = Drop(input, Len(unit.Blurb))
    /\ prod' = IF sdone THEN "closed" ELSE "dissect"
    /\ sdone' = FALSE
    /\ unit' = NoUnit
    /\ IF unit.Err # "nil"
       THEN /\ pres' = [st |-> "err", err |-> unit.Err]
            /\ ppc' = "idle"
            /\ UNCHANGED <<building, crash>>
       ELSE Insert(DescriptorParser(pargs.lazy, unit.Blurb))
    /\ UNCHANGED <<storeVars, pargs, sbuf, serr, decoded>>

\* The queue is closed: the loop ends and the parse returns the
\* RouterDescriptors, which the caller keeps as dst.
DescReturn ==
    /\ crash = "none" /\ ppc = "descriptors" /\ prod = "closed"
    /\ pres' = [st |-> "ok", err |-> "nil"]
    /\ ppc' = "idle"
    /\ descs' = [descs EXCEPT ![pargs.dst] = building]
    /\ UNCHANGED <<cons, ops, last, crash, setlog, onlySet, pargs, building,
                   scanVars, iter, decoded>>

(***************************************************************************)
(* The caller calls a decoder on a chunk it holds, and then the function   *)
(* the decoder returned.                                                   *)
(***************************************************************************)
\* The caller is between calls.
Callable == crash = "none" /\ ppc = "idle" /\ iter.st # "running"

\* fingerprint, getStatus, err := fn(raw), where d is what the full decoder
\* makes of the chunk
Called(fn, raw, d) ==
    /\ decoded' = [NoCall EXCEPT !.fn = fn, !.raw = raw, !.st = d.st,
                                 !.fpr = IF d.st = "ok" THEN d.rec.Fingerprint ELSE "",
                                 !.rec = d.rec]
    /\ crash' = IF d.st = "panic" THEN "panic" ELSE crash

\* fingerprint, getStatus, err := fn(raw), where l is what the lazy decoder
\* makes of the chunk
LazyCalled(fn, raw, l) ==
    /\ decoded' = [NoCall EXCEPT !.fn = fn, !.raw = raw, !.st = l.st, !.fpr = l.fpr]
    /\ crash' = IF l.st = "panic" THEN "panic" ELSE crash

CallParseRawStatus ==
    /\ Callable /\ decoded.raw \in StatusChunks
    /\ Called("ParseRawStatus", decoded.raw, ParseRawStatus(decoded.raw))
    /\ UNCHANGED <<storeVars, parseVars, scanVars>>

CallLazyParseRawStatus ==
    /\ Callable /\ decoded.raw \in StatusChunks
    /\ LazyCalled("LazyParseRawStatus", decoded.raw, LazyParseRawStatus(decoded.raw))
    /\ UNCHANGED <<storeVars, parseVars, scanVars>>

CallParseRawDescriptor ==
    /\ Callable /\ decoded.raw \in DescriptorChunks
    /\ Called("ParseRawDescriptor", decoded.raw, ParseRawDescriptor(decoded.raw))
    /\ UNCHANGED <<storeVars, parseVars, scanVars>>

CallLazyParseRawDescriptor ==
    /\ Callable /\ decoded.raw \in DescriptorChunks
    /\ LazyCalled("LazyParseRawDescriptor", decoded.raw,
                  LazyParseRawDescriptor(decoded.raw))
    /\ UNCHANGED <<storeVars, parseVars, scanVars>>

\* What the function returned by fn gives when it is called: the closure
\* of a lazy decoder decodes raw, the closure of a full decoder returns the
\* record that was decoded.
Returned(fn, raw, rec) ==
    CASE fn = "LazyParseRawStatus" -> CallDecoded(ParseRawStatus(raw))
      [] fn = "LazyParseRawDescriptor" -> CallDecoded(ParseRawDescriptor(raw))
      [] OTHER -> [st |-> "ok", rec |-> rec]

\* r is what the call gave
GetStatusReturns(r) ==
    /\ decoded' = [decoded EXCEPT !.called = TRUE, !.rec = r.rec]
    /\ crash' = IF r.st = "ok" THEN crash ELSE "panic"

\* status := getStatus(), on the function of the last decoder call
CallGetStatus ==
    /\ Callable
    /\ decoded.fn # "none" /\ decoded.st = "ok" /\ ~decoded.called
    /\ GetStatusReturns(Returned(decoded.fn, decoded.raw, decoded.rec))
    /\ UNCHANGED <<storeVars, parseVars, scanVars>>

\* The fingerprints the caller asks HasFamily about: one in upper case, the
\* same in lower case, and one that no family line lists.
AskedFprs == {"AA11", "aa11", "CC33"}

\* desc.HasFamily(f) on the descriptor the last call of getDescriptor gave
CallHasFamily(f) ==
    /\ Callable
    /\ decoded.fn \in {"ParseRawDescriptor", "LazyParseRawDescriptor"}
    /\ decoded.called /\ decoded.asked = ""
    /\ decoded' = [decoded EXCEPT !.asked = f, !.has = HasFamily(decoded.rec, f)]
    /\ UNCHANGED <<crash, storeVars, parseVars, scanVars>>

Next ==
    \/ \E c \in ConsNames, f \in SetFprs, r \in StatusRecs : ConsensusSet(c, f, r)
    \/ \E d \in DescNames, f \in DescFprs : DescriptorsSet(d, f)
    \/ \E c \in ConsNames, f \in GetFprs : ConsensusGet(c, f)
    \/ \E c \in ConsNames, o \in ConsNames \cup DescNames : ConsensusMerge(c, o)
    \/ \E d \in DescNames, o \in ConsNames \cup DescNames : DescriptorsMerge(d, o)
    \/ \E a \in ConsNames, b \in ConsNames, dst \in ConsNames : ConsensusIntersect(a, b, dst)
    \/ \E a \in ConsNames, b \in ConsNames, dst \in ConsNames : ConsensusSubtract(a, b, dst)
    \/ \E p \in StoreParses : ParseStart(p.doc, p.lazy, p.strict, ParseDst)
    \/ ScanStep
    \/ Deliver
    \/ ParseReturn

\* The caller's stores: one of StoreParses, then store operations.
Spec == Init /\ [][Next]_vars

NextParse ==
    \/ \E doc \in Docs, lazy \in BOOLEAN, strict \in BOOLEAN :
          ParseStart(doc, lazy, strict, ParseDst)
    \/ ScanStep
    \/ Deliver
    \/ ParseReturn

\* The parse pipeline alone, over every document of Docs.
SpecParse == Init /\ [][NextParse]_vars

NextQueue ==
    \/ \E doc \in QueueDocs, lazy \in BOOLEAN, strict \in BOOLEAN :
          ParseStart(doc, lazy, strict, ParseDst)
    \/ ScanStep
    \/ Deliver
    \/ ParseReturn

\* Deliver can be taken: the loop of the caller is at its receive and
\* DissectFile is at a send.  (Deliver is total in what the decoder makes
\* of the unit, and it always changes chunks.)
DeliverEnabled == crash = "none" /\ ppc = "parsing" /\ prod \in {"send", "senderr"}

\* The parse pipeline with its two goroutines scheduled fairly: the
\* goroutine of DissectFile takes its next step when it can, and the loop
\* of the caller receives a unit that is sent to it and returns when the
\* queue is closed.  The weak fairness of Deliver is written with its
\* enabling condition.
SpecQueue ==
    /\ Init /\ [][NextQueue]_vars
    /\ WF_vars(ScanStep) /\ WF_vars(ParseReturn)
    /\ ([]<>~DeliverEnabled \/ []<><<Deliver>>_vars)

NextIterate ==
    \/ \E f \in SetFprs, r \in StatusRecs : ConsensusSet(ParseDst, f, r)
    \/ \E f \in DescFprs : DescriptorsSet(IterDescs, f)
    \/ \E p \in StoreParses : ParseStart(p.doc, p.lazy, p.strict, ParseDst)
    \/ ScanStep
    \/ Deliver
    \/ ParseReturn
    \/ \E filter \in IterFilters : ConsensusIterate(ParseDst, filter)
    \/ \E filter \in IterFilters : DescriptorsIterate(IterDescs, filter)
    \/ IterateNext
    \/ IterateClose

NextScan ==
    \/ \E doc \in ScanDocs : ScanStart(doc)
    \/ ScanStep
    \/ Collect

\* The tokenizer alone, over every text of ScanDocs.
SpecScan == Init /\ [][NextScan]_vars

NextIncrements ==
    \/ \E doc \in IncrementDocs : ScanStart(doc)
    \/ ScanStepBytes
    \/ Collect

\* The tokenizer alone, on a reader that delivers the text in increments
\* of any length.
SpecIncrements == Init /\ [][NextIncrements]_vars

NextDocuments ==
    \/ \E doc \in ConsensusDocs, lazy \in BOOLEAN, strict \in BOOLEAN :
          ParseStart(doc, lazy, strict, ParseDst)
    \/ ScanStep
    \/ Deliver
    \/ ParseReturn
    \/ \E doc \in DescriptorDocs, lazy \in BOOLEAN : DescParseStart(doc, lazy, IterDescs)
    \/ Dissect
    \/ DescDeliver
    \/ DescReturn

\* The two parses, of consensuses and of descriptor files in which
\* fingerprints recur.
SpecDocuments == Init /\ [][NextDocuments]_vars

\* Filtered iteration over the Consensus and the RouterDescriptors that a
\* parse and Set have filled.
SpecIterate == Init /\ [][NextIterate]_vars

NextDecode ==
    \/ CallParseRawStatus
    \/ CallLazyParseRawStatus
    \/ CallParseRawDescriptor
    \/ CallLazyParseRawDescriptor
    \/ CallGetStatus
    \/ \E f \in AskedFprs : CallHasFamily(f)

\* The decoders alone, on a chunk the caller holds.
SpecDecode == InitDecode /\ [][NextDecode]_vars

(***************************************************************************)
(* Properties.                                                             *)
(***************************************************************************)
\* The record a handle yields
RecordOf(h) == Resolve(h).rec

\* The fingerprints of the records a document was made of
DocFprs(doc) == { ParseRawStatus(doc.recs[i]).rec.Fingerprint : i \in 1..Len(doc.recs) }

\* Every record of the document is one the full decoder accepts.
WellFormed(doc) == \A i \in 1..Len(doc.recs) : ParseRawStatus(doc.recs[i]).st = "ok"

\* The parse has returned.
ParseDone == pres.st \in {"ok", "err"}

MaxOf(S) == CHOOSE x \in S : \A y \in S : y <= x

\* C1: after self.Merge(other) that completed, the keys of self are those
\* it had before together with those of other; what self held is kept, and
\* a key only other held maps to other's record.
C1_MergeIsUnion ==
    (last.op = "Merge" /\ last.st = "ok") =>
        /\ DOMAIN last.post = (DOMAIN last.pre) \cup (DOMAIN last.arg)
        /\ \A k \in DOMAIN last.pre : last.post[k] = last.pre[k]
        /\ \A k \in (DOMAIN last.arg) \ (DOMAIN last.pre) :
              RecordOf(last.post[k]) = RecordOf(last.arg[k])

\* C2: a non-strict parse of a document of a preamble and n >= 1 well-formed
\* records that ends without the terminal marker succeeds, and the store it
\* returns holds exactly the fingerprints of the n records.
C2_NonStrictImplicitTerminal ==
    (/\ ParseDone
     /\ ~pargs.strict
     /\ pargs.doc.header # ""
     /\ Len(pargs.doc.recs) >= 1
     /\ WellFormed(pargs.doc)
     /\ pargs.doc.trailer = "") =>
        (pres.st = "ok" /\ DOMAIN building = DocFprs(pargs.doc))

\* C3: a parse is all-or-nothing: when it returns no error, the store it
\* returns holds every record of the document.
C3_AllOrNothing ==
    (pres.st = "ok" /\ WellFormed(pargs.doc)) =>
        DocFprs(pargs.doc) \subseteq DOMAIN building

\* C4: store.Merge(store) completes and changes nothing: the keys and the
\* record under every key are as before.
C4_SelfMergeNoOp ==
    (last.op = "Merge" /\ last.self = last.other) =>
        (last.st = "ok" /\ last.post = last.pre)

\* C5: the keys of a.Intersect(b) are the keys a and b share, each with the
\* handle a held (so a.Intersect(empty) is empty).
C5_Intersect ==
    last.op = "Intersect" =>
        /\ DOMAIN last.post = (DOMAIN last.pre) \cap (DOMAIN last.arg)
        /\ \A k \in DOMAIN last.post : last.post[k] = last.pre[k]
        /\ (last.arg = NewStore => last.post = NewStore)

\* C5 is exercised: a and b share a key under which they hold different
\* handles, and a holds a key b lacks.
C5_Witness ==
    /\ last.op = "Intersect"
    /\ \E k \in (DOMAIN last.pre) \cap (DOMAIN last.arg) : last.pre[k] # last.arg[k]
    /\ (DOMAIN last.pre) \ (DOMAIN last.arg) # {}

\* C6: the keys of a.Subtract(b) are the keys of a that b lacks, each with
\* the handle a held (so a.Subtract(empty) has a's keys and handles).
C6_Subtract ==
    last.op = "Subtract" =>
        /\ DOMAIN last.post = (DOMAIN last.pre) \ (DOMAIN last.arg)
        /\ \A k \in DOMAIN last.post : last.post[k] = last.pre[k]
        /\ (last.arg = NewStore => last.post = last.pre)

\* C6 is exercised: a holds a key b holds as well and a key b lacks.
C6_Witness ==
    /\ last.op = "Subtract"
    /\ (DOMAIN last.pre) \cap (DOMAIN last.arg) # {}
    /\ (DOMAIN last.pre) \ (DOMAIN last.arg) # {}

\* C7: on a store changed by Set calls only, Length() is the number of
\* distinct normalized fingerprints set, and Get(f) returns the record of
\* the most recent Set whose fingerprint normalizes as f does.
C7_SetLastWriteWins ==
    \A c \in ConsNames :
        onlySet[c] =>
            LET log == setlog[c]
                same(f) == { i \in 1..Len(log) :
                               SanitiseFingerprint(log[i].fpr) = SanitiseFingerprint(f) }
            IN  /\ Length(cons[c]) =
                      Cardinality({ SanitiseFingerprint(log[i].fpr) : i \in 1..Len(log) })
                /\ \A f \in GetFprs :
                      IF same(f) = {}
                      THEN ~Get(cons[c], f).found
                      ELSE Get(cons[c], f) =
                             [st |-> "ok", found |-> TRUE, rec |-> log[MaxOf(same(f))].rec]

\* C7 is exercised: two Set calls with fingerprints that differ in case and
\* white space only, and with different records.
C7_Witness ==
    \E c \in ConsNames :
        /\ onlySet[c]
        /\ Len(setlog[c]) = 2
        /\ setlog[c][1].fpr # setlog[c][2].fpr
        /\ SanitiseFingerprint(setlog[c][1].fpr) = SanitiseFingerprint(setlog[c][2].fpr)
        /\ setlog[c][1].rec # setlog[c][2].rec

\* The stores of a state: the caller's, the one a parse is filling, and
\* the result of the last operation.
AllStores ==
    {cons[c] : c \in ConsNames} \cup {descs[d] : d \in DescNames}
       \cup {building, last.post}

\* C8: every key of every store is a normalized fingerprint.
C8_KeysNormalized ==
    \A st \in AllStores : \A k \in DOMAIN st : k = SanitiseFingerprint(k)

\* C8 is exercised: a parse has filled a store from the fingerprints the
\* records carry in base64, and a Set has put a record under a fingerprint
\* given in lower case or with white space around it.
C8_Witness ==
    /\ pres.st = "ok"
    /\ DOMAIN cons[pargs.dst] # {}
    /\ last.op = "Set"
    /\ last.fpr # SanitiseFingerprint(last.fpr)
    /\ SanitiseFingerprint(last.fpr) \in DOMAIN last.post

\* C9: Get(f) completes; it finds a record exactly when the normalized f is
\* a key, returns the stored record then and no record otherwise, and
\* leaves the store as it was.
C9_GetTotal ==
    last.op = "Get" =>
        /\ last.st = "ok"
        /\ last.found <=> (SanitiseFingerprint(last.fpr) \in DOMAIN last.pre)
        /\ last.found => last.rec = RecordOf(last.pre[SanitiseFingerprint(last.fpr)])
        /\ ~last.found => last.rec = NewRouterStatus
        /\ last.post = last.pre

\* C10: Merge, Intersect and Subtract complete for every pair of stores.
C10_SetAlgebraTotal ==
    last.op \in {"Merge", "Intersect", "Subtract"} => last.st = "ok"

\* The keys of the map entries the caller of Iterate has received
GotKeys == { iter.got[i].key : i \in 1..Len(iter.got) }

\* No map entry was delivered twice, and each delivery is the entry's record.
GotOnce ==
    /\ Cardinality(GotKeys) = Len(iter.got)
    /\ \A i \in 1..Len(iter.got) :
          /\ iter.got[i].key \in DOMAIN iter.store
          /\ iter.got[i].obj = RecordOf(iter.store[iter.got[i].key])

ThreeSetsEmpty(filter) ==
    filter.Fingerprints = {} /\ filter.IPAddrs = {} /\ filter.Nicknames = {}

\* The addresses a record has
Addresses(r) == {r.IPv4Address, r.IPv6Address} \ {""}

\* The record is in at least one category of the filter.
Selected(filter, r) ==
    \/ r.Fingerprint \in filter.Fingerprints
    \/ Addresses(r) \cap filter.IPAddrs # {}
    \/ r.Nickname \in filter.Nicknames

\* C11: Iterate(nil) and Iterate of an empty filter do not fail, deliver no
\* stored record twice, and have delivered every stored record, Length()
\* of them, when the channel is closed.
C11_IterateAll ==
    (iter.st # "none" /\ (iter.filter.nil \/ ThreeSetsEmpty(iter.filter))) =>
        /\ iter.st # "panic"
        /\ GotOnce
        /\ iter.st = "closed" =>
              /\ GotKeys = DOMAIN iter.store
              /\ Len(iter.got) = Length(iter.store)

\* C12: Iterate of a non-empty filter does not fail, delivers only records
\* that are in a category of the filter, none twice, and has delivered
\* every such record of the store when the channel is closed.
C12_IterateFiltered ==
    (iter.st # "none" /\ ~iter.filter.nil /\ ~ThreeSetsEmpty(iter.filter)) =>
        /\ iter.st # "panic"
        /\ GotOnce
        /\ \A i \in 1..Len(iter.got) : Selected(iter.filter, iter.got[i].obj)
        /\ iter.st = "closed" =>
              GotKeys = { k \in DOMAIN iter.store :
                            Selected(iter.filter, RecordOf(iter.store[k])) }

\* The Consensus under iteration is iterated with a filter that exists and
\* whose three sets are empty.
EmptyFilterIterated ==
    /\ iter.st \in {"running", "closed"}
    /\ iter.self \in ConsNames
    /\ ~iter.filter.nil
    /\ ThreeSetsEmpty(iter.filter)

\* C13, as claimed: MatchesRouterStatus returns true for every record of
\* the store when the three sets of the filter are empty.
C13_EmptyFilterMatches ==
    EmptyFilterIterated =>
        \A k \in DOMAIN iter.store :
            Resolve(iter.store[k]).st = "ok" =>
                MatchesRouterStatus(iter.filter, RecordOf(iter.store[k]))

\* C13, amended: when the three sets of the filter are empty, IsEmpty
\* returns true and the test of Iterate admits every record, while
\* MatchesRouterStatus returns false for every record.
C13_EmptyFilterAdmitted ==
    EmptyFilterIterated =>
        /\ IsEmpty(iter.filter)
        /\ \A k \in DOMAIN iter.store :
              Resolve(iter.store[k]).st = "ok" =>
                  /\ ~MatchesRouterStatus(iter.filter, RecordOf(iter.store[k]))
                  /\ Admits(iter.filter, RecordOf(iter.store[k]))

C13_Witness ==
    /\ EmptyFilterIterated
    /\ iter.st = "closed"
    /\ Len(iter.got) = 2
    /\ GotKeys = DOMAIN iter.store

\* A strict parse has returned for a document whose preamble
\* extractMetaInfo accepts and whose last record is followed by the end of
\* the input.
StrictUnterminated ==
    /\ ParseDone
    /\ pargs.strict
    /\ ~extractMetaInfo(pargs.doc.text).err
    /\ Len(pargs.doc.recs) >= 1
    /\ pargs.doc.trailer = ""

\* C14: a strict parse of a document whose last record is followed by
\* neither a start marker nor the terminal marker returns an error and no
\* store, and the error is ErrNoStatusEntry, not the error of a missing
\* start marker or any other.
C14_StrictNoTerminal ==
    StrictUnterminated =>
        /\ pres.st = "err"
        /\ pres.err = "noend"
        /\ pres.err \notin {"nostart", "metainfo", "decode", "EOF"}
        /\ cons[pargs.dst] = NewStore

C14_Witness ==
    /\ StrictUnterminated
    /\ Len(pargs.doc.recs) = 2
    /\ pres.err = "noend"
    /\ Length(building) = 1

\* What extractMetaInfo leaves of the document to the tokenizer
TokenizerInput == extractMetaInfo(pargs.doc.text).rest

\* The parse has returned and it got past extractMetaInfo.
TokenizerDone ==
    /\ ParseDone
    /\ ~(pargs.strict /\ extractMetaInfo(pargs.doc.text).err)

\* The text holds a start marker: at its beginning or at the beginning of
\* a later line.
HasStart(data) == HasPrefix(data, StartMarker) \/ Index(data, NextMarker) >= 0

\* C15: when the input of the tokenizer is not empty and holds no start
\* marker, the parse returns an error, strict or not; when it is empty the
\* parse ends without a chunk and without an error.
C15_NoStartMarker ==
    TokenizerDone =>
        /\ (TokenizerInput # "" /\ ~HasStart(TokenizerInput)) =>
              (pres.st = "err" /\ pres.err = "nostart" /\ building = NewStore)
        /\ TokenizerInput = "" =>
              (pres.st = "ok" /\ building = NewStore /\ cons[pargs.dst] = NewStore)

C15_Witness ==
    /\ TokenizerDone
    /\ ~pargs.strict
    /\ TokenizerInput # ""
    /\ ~HasStart(TokenizerInput)
    /\ pres.err = "nostart"

\* An empty tokenizer input has ended a parse.
C15_WitnessEmpty ==
    /\ TokenizerDone
    /\ pargs.doc.text # ""
    /\ TokenizerInput = ""
    /\ pres.st = "ok"

\* The units the tokenizer has emitted: those received and the one that
\* is being handed over
Emitted == chunks \o (IF prod \in {"send", "senderr"} THEN <<unit>> ELSE <<>>)

\* The tokenizer alone runs on a text of records followed by the terminal
\* marker.
ScanningTerminated ==
    /\ ppc = "scanning"
    /\ Len(pargs.doc.recs) >= 1
    /\ pargs.doc.trailer = Trailer

\* C16: on a text made of a preamble, k >= 1 records and the terminal
\* marker, the i-th chunk the tokenizer emits is the text of the i-th
\* record, from its start marker to the newline before the next, and when
\* the tokenizer has ended it has emitted k chunks.
C16_PaddedRecords ==
    ScanningTerminated =>
        /\ Len(Emitted) <= Len(pargs.doc.recs)
        /\ \A i \in 1..Len(Emitted) :
              Emitted[i] = [Blurb |-> pargs.doc.recs[i], Err |-> "nil"]
        /\ prod = "closed" => Len(chunks) = Len(pargs.doc.recs)

C16_Witness ==
    /\ ScanningTerminated
    /\ pargs.doc.header = Padding
    /\ prod = "closed"
    /\ Len(chunks) = 2

\* The last chunk is out: the scanner has seen bufio.ErrFinalToken, or
\* the tokenizer has ended.
FinalSeen == sdone \/ prod = "closed"

\* C17: the chunk of the record before the terminal marker ends where the
\* terminal marker begins, and it is the last event: from then on the
\* tokenizer has emitted one chunk for each record, and no error.
C17_FinalChunk ==
    (ScanningTerminated /\ FinalSeen) =>
        /\ Len(Emitted) = Len(pargs.doc.recs)
        /\ Emitted[Len(Emitted)].Err = "nil"
        /\ pargs.doc.header \o Concat([i \in 1..Len(Emitted) |-> Emitted[i].Blurb])
              \o pargs.doc.trailer = pargs.doc.text
        /\ serr \in {"nil", "EOF"}

C17_Witness ==
    /\ ScanningTerminated
    /\ prod = "closed"
    /\ Len(chunks) = 1
    /\ chunks[1].Blurb = EntryFoo

\* The text of the start marker occurs in s at an offset that is not the
\* beginning of a line.
HasMidLineMarker(s) ==
    \E i \in 1..(Len(s) - 2) :
        /\ Slice(s, i, i + 2) = StartMarker
        /\ CharAt(s, i - 1) # "\n"

\* C18: every chunk the tokenizer emits is a whole record of the text, the
\* i-th chunk the i-th record: a record that holds the text of the start
\* marker in the middle of a line is not cut there.
C18_MidLineMarker ==
    ppc = "scanning" =>
        \A i \in 1..Len(Emitted) :
            Emitted[i].Err = "nil" =>
                /\ i <= Len(pargs.doc.recs)
                /\ Emitted[i].Blurb = pargs.doc.recs[i]

C18_Witness ==
    /\ ppc = "scanning"
    /\ Len(chunks) = 2
    /\ HasMidLineMarker(chunks[2].Blurb)
    /\ HasMidLineMarker(pargs.doc.header)

\* C20: when the consumer loop of a parse receives a unit that carries an
\* error, it returns that error at once: the parse ends with this error
\* and the store it builds is left as it was.
C20_ErrorUnitReturned ==
    [][ (ppc = "parsing" /\ prod \in {"send", "senderr"} /\ unit.Err # "nil"
           /\ chunks' # chunks) =>
        (/\ pres'.st = "err"
         /\ pres'.err = unit.Err
         /\ ppc' = "idle"
         /\ building' = building) ]_vars

\* The parse is one of a descriptor file.
DescriptorParse == pargs.dst \in DescNames

\* What the full decoder makes of the i-th record of the document
FullDecode(i) ==
    IF DescriptorParse THEN ParseRawDescriptor(pargs.doc.recs[i])
    ELSE ParseRawStatus(pargs.doc.recs[i])

\* The normalized fingerprint of the i-th record of the document
RecKey(i) == SanitiseFingerprint(FullDecode(i).rec.Fingerprint)

\* The handle the parse makes for the i-th record of the document
RecHandleOf(i) ==
    IF ~pargs.lazy THEN RecHandle(FullDecode(i).rec)
    ELSE IF DescriptorParse THEN LazyDescHandle(pargs.doc.recs[i])
    ELSE LazyHandle(pargs.doc.recs[i])

\* The parse accepts what precedes the records, the full decoder accepts
\* every record, and a consensus ends with the terminal marker.
WellFormedDocument ==
    /\ Len(pargs.doc.recs) >= 1
    /\ \A i \in 1..Len(pargs.doc.recs) : FullDecode(i).st = "ok"
    /\ IF DescriptorParse THEN ~CheckAnnotation(pargs.doc.text).err
       ELSE ~extractMetaInfo(pargs.doc.text).err /\ pargs.doc.trailer = Trailer

\* C19: the parse of a well-formed document returns a store that has one
\* key for each distinct normalized fingerprint of the records and, under
\* each, the handle of the last record with that fingerprint, as the
\* queue hands the chunks to the consumer loop in the order of the stream.
C19_LastRecordWins ==
    (ParseDone /\ WellFormedDocument) =>
        /\ pres.st = "ok"
        /\ Length(StoreOf(pargs.dst)) =
              Cardinality({ RecKey(i) : i \in 1..Len(pargs.doc.recs) })
        /\ \A i \in 1..Len(pargs.doc.recs) :
              (\A j \in (i + 1)..Len(pargs.doc.recs) : RecKey(j) # RecKey(i)) =>
                  /\ RecKey(i) \in DOMAIN StoreOf(pargs.dst)
                  /\ StoreOf(pargs.dst)[RecKey(i)] = RecHandleOf(i)

C19_Witness ==
    /\ ParseDone
    /\ WellFormedDocument
    /\ DescriptorParse
    /\ Len(pargs.doc.recs) = 3
    /\ Length(StoreOf(pargs.dst)) = 2
    /\ RecKey(1) = RecKey(3)

\* A consensus in which a fingerprint recurs has been parsed.
C19_WitnessConsensus ==
    /\ ParseDone
    /\ WellFormedDocument
    /\ ~DescriptorParse
    /\ Len(pargs.doc.recs) = 3
    /\ Length(StoreOf(pargs.dst)) = 2

\* The full status decoder has been called on the status entry of
\* TestExtractStatusEntry and has returned.
SeeleDecoded ==
    /\ decoded.fn = "ParseRawStatus" /\ decoded.raw = StatusEntrySeele
    /\ decoded.st = "ok"

\* The fields of the record but its version
SeeleFields(rec) ==
    /\ rec.Nickname = "seele"
    /\ rec.IPv4Address = "73.15.150.172"
    /\ rec.IPv4ORPort = 9001 /\ rec.IPv4DirPort = 0
    /\ rec.Flags = {"Fast", "Running", "Stable", "Valid"}
    /\ rec.Bandwidth = 18

\* C21 as stated: decoding the status entry of "seele" yields a record
\* with nickname "seele", address 73.15.150.172, OR port 9001, Dir port 0,
\* flags exactly {Fast, Running, Stable, Valid}, bandwidth 18 and version
\* "Tor".
C21_SeeleVersionTor ==
    SeeleDecoded => SeeleFields(decoded.rec) /\ decoded.rec.TorVersion = "Tor"

\* C21 amended: decoding the status entry of "seele" yields a record with
\* nickname "seele", address 73.15.150.172, OR port 9001, Dir port 0, flags
\* exactly {Fast, Running, Stable, Valid}, bandwidth 18 and version
\* "0.2.5.10", the third token of the "v" line.
C21_SeeleRecord ==
    SeeleDecoded => SeeleFields(decoded.rec) /\ decoded.rec.TorVersion = "0.2.5.10"

\* The entry of "seele" has been decoded and the function that the decoder
\* returned has been called.
C21_Witness == SeeleDecoded /\ decoded.called

\* This step is a Get of a key that the store holds: it resolves a handle.
Resolves == last'.op = "Get" /\ ops' = ops + 1
               /\ SanitiseFingerprint(last'.fpr) \in DOMAIN last'.pre

\* This step resolves the handle that the step before it resolved.
ResolvesAgain ==
    /\ Resolves /\ last.op = "Get" /\ last.self = last'.self
    /\ SanitiseFingerprint(last.fpr) = SanitiseFingerprint(last'.fpr)

\* C22: every resolution of a handle that a store holds returns a record,
\* the second of two successive resolutions of a handle returns a record
\* that is field for field the record the first returned, and a resolution
\* changes no store: neither a key set nor a handle.
C22_ResolveIdempotent ==
    [][Resolves => /\ last'.st = "ok" /\ last'.found
                   /\ ResolvesAgain => last'.rec = last.rec
                   /\ cons' = cons /\ descs' = descs]_vars

\* The full status decoder has been called on the entry made of the lines
\* r, v and w.
StatusDecoded(r, v, w) ==
    decoded.fn = "ParseRawStatus" /\ decoded.raw = StatusChunk(r, v, w)

\* The record of the entry with a well-formed "w" line in the place of w
WellFormedRecord(r, v) == ParseRawStatus(StatusChunk(r, v, WLineSeele)).rec

\* C23: the decode of a status entry whose "w" line has a value that is no
\* unsigned integer (no number, empty, or no "=" in the sub-token) is not
\* aborted: it returns a record with Bandwidth 0 whose other fields are
\* those of the entry with a well-formed "w" line.
C23_BandwidthDegrades ==
    \A r \in {RLineSeele, Rec1}, v \in VLines, w \in WLinesNoNumber :
        StatusDecoded(r, v, w) =>
            /\ decoded.st = "ok"
            /\ decoded.rec = [WellFormedRecord(r, v) EXCEPT !.Bandwidth = 0]

\* The full descriptor decoder has been called on the chunk and has
\* returned a record.
DescriptorDecoded(raw) ==
    decoded.fn = "ParseRawDescriptor" /\ decoded.raw = raw /\ decoded.st = "ok"

\* C24: the decoded record tells the order of the accept and the reject
\* lines of its chunk: the chunk in which the accept line comes first and
\* the chunk in which the reject line comes first, alike in every other
\* line, decode to different records.
C24_PolicyOrder ==
    \A f \in FingerprintLines, fam \in FamilyLines :
        DescriptorDecoded(DescriptorChunk(f, "", fam, AcceptLine \o RejectLine))
          => decoded.rec #
               ParseRawDescriptor(DescriptorChunk(f, "", fam, RejectLine \o AcceptLine)).rec

\* The units DissectFile emits when the first Read returns all of data: r
\* is what the split function returns on data at the end of the input.
RECURSIVE UnitsAfter(_, _)
UnitsAfter(data, r) ==
    IF r.err = "final" THEN <<[Blurb |-> r.token, Err |-> "nil"]>>
    ELSE IF r.err # "nil" THEN <<[Blurb |-> "", Err |-> r.err]>>
    ELSE IF ~r.some THEN <<>>
    ELSE <<[Blurb |-> r.token, Err |-> "nil"]>>
           \o UnitsAfter(Drop(data, r.advance),
                         extractStatusEntry(Drop(data, r.advance), TRUE))

UnitsOfWhole(data) == UnitsAfter(data, extractStatusEntry(data, TRUE))

\* C25: however the reader cuts the input into increments, the tokenizer
\* emits the chunks, and ends with the outcome, that it emits and ends
\* with when the input is delivered whole.
C25_IncrementsAgree ==
    (ppc = "scanning" /\ prod = "closed") => chunks = UnitsOfWhole(pargs.doc.text)

\* A descriptor file whose annotation parseDescriptorFile accepts is being
\* dissected or has been parsed.
DescriptorsDissected == DescriptorParse /\ ~CheckAnnotation(pargs.doc.text).err

\* The units of the descriptors of the document, in the order of the stream
DescriptorUnits ==
    [i \in 1..Len(pargs.doc.recs) |-> [Blurb |-> pargs.doc.recs[i], Err |-> "nil"]]

\* C26: the dissector emits every descriptor of the file once and in the
\* order of the stream, and after it has emitted a chunk what is left of
\* the input starts at the first byte after that chunk, whatever precedes
\* the chunk: no byte is part of two chunks.
C26_EachDescriptorOnce ==
    DescriptorsDissected =>
        /\ ParseDone => chunks = DescriptorUnits
        /\ (prod = "dissect" /\ Len(chunks) \in 1..Len(pargs.doc.recs)) =>
              input = Annotated(pargs.doc.header,
                                SubSeq(pargs.doc.recs, Len(chunks) + 1,
                                       Len(pargs.doc.recs)))

\* The goroutine of DissectFile runs: it scans or it is at a send.
Dissecting == prod \in {"scan", "send", "senderr"}

\* C27: in every parse the goroutine of DissectFile comes to close the
\* queue and to end, unless the program dies, also when the consumer loop
\* has returned early.
C27_QueueClosed == Dissecting ~> (prod = "closed" \/ crash # "none")


\* The last decoder call was a call of a lazy decoder that returned no error.
LazyAccepted ==
    /\ decoded.fn \in {"LazyParseRawStatus", "LazyParseRawDescriptor"}
    /\ decoded.st = "ok"

\* What the full decoder of the kind of the last call makes of its chunk
FullDecoded ==
    IF decoded.fn \in {"LazyParseRawStatus", "ParseRawStatus"}
    THEN ParseRawStatus(decoded.raw)
    ELSE ParseRawDescriptor(decoded.raw)

\* C28: a chunk for which a lazy decoder returns no error is a chunk the
\* full decoder accepts, and the call of the returned function does not
\* panic.
C28_LazyResolvable ==
    LazyAccepted =>
        /\ FullDecoded.st = "ok"
        /\ decoded.called => crash = "none"


\* C29: for a chunk both decoders accept, the fingerprint the lazy decoder
\* returns equals the fingerprint the full decoder returns, and the record
\* the returned function yields carries that fingerprint, also when the
\* chunk has more than one identity line.
C29_SameFingerprint ==
    (LazyAccepted /\ FullDecoded.st = "ok") =>
        /\ decoded.fpr = FullDecoded.rec.Fingerprint
        /\ decoded.called => decoded.rec.Fingerprint = decoded.fpr


\* The normalised fingerprints the "family" lines of a chunk list, with or
\* without a leading "$"
FamilyWordsListed(words) ==
    IF Len(words) > 0 /\ words[1] = "family"
    THEN {SanitiseFingerprint(TrimDollar(words[i])) : i \in 2..Len(words)}
    ELSE {}

FamilyListed(raw) ==
    UNION {FamilyWordsListed(OptWords(Split(Split(raw, "\n")[i], " "))) :
              i \in 1..Len(Split(raw, "\n"))}

\* C30: HasFamily(f) on a decoded descriptor is true exactly if a family
\* line of the chunk lists a fingerprint whose normalised form is the
\* normalised form of f, whatever the letter case of the entry and of f.
C30_HasFamily ==
    decoded.asked # "" =>
        (decoded.has <=> SanitiseFingerprint(decoded.asked) \in FamilyListed(decoded.raw))

====
